---- MODULE Spec2Model ----
(***************************************************************************)
(* Model of the activity-capture scheduler (core/activity_manager.py), the *)
(* FAISS index manager (services/index_manager.py) and the application     *)
(* recorder (services/activity_recording.py).                              *)
(*                                                                         *)
(* One coordinating thread calls start_recording, stop_recording,          *)
(* load_session and create_session; poller threads run the two recording   *)
(* loops.  Every statement that reads or writes shared state is one step.  *)
(***************************************************************************)
EXTENDS Integers, Sequences, FiniteSets, TLC

\* ------------------------------------------------------------------ bounds
MaxThreads == 2     \* thread objects of each kind that may exist at once
MaxEntries == 2     \* entries stored or being captured at any one time
MaxCalls == 3       \* calls the coordinating thread makes
MaxAbandoned == 1   \* pollers that outlive their join at any one time
MaxStored == 3      \* vectors in the index of the sequential specification
MaxBatch == 2       \* texts in one add_texts call
MaxK == 4           \* largest k asked of search_by_text
MaxOps == 4         \* calls made on the index manager alone
MaxElapsed == 1     \* seconds the clock advances in the clocked specification
MaxTokens == 4      \* tagged tokens given to extract_sensitive_sequences
MaxChunks == 2      \* OCR chunks on one screenshot
MaxBracketed == 1   \* of them, chunks that show the text of a special token

\* ------------------------------------------------------- program constants
screenshot_interval_seconds == 10
app_poll_interval_seconds == 5
dim == 512

\* time.time() is far larger than either interval
StartTime == screenshot_interval_seconds + app_poll_interval_seconds

\* ------------------------------------------------------------------ values
None == <<"None">>
Slots == 1..MaxThreads
NoThread == <<"none", 0>>
Tid(kind, i) == <<kind, i>>

SessionNames == {"s1"}
PathArgs == [name : SessionNames, joblib : BOOLEAN]
NoPath == [name |-> "None", joblib |-> FALSE]
endswith_joblib(p) == p.joblib
NormalizePath(p) == IF ~endswith_joblib(p) THEN [p EXCEPT !.joblib = TRUE] ELSE p

NoFile == [kind |-> "absent", index |-> <<>>, metadata |-> <<>>, dim |-> 0]
CorruptFile == [kind |-> "corrupt", index |-> <<>>, metadata |-> <<>>, dim |-> 0]
path_exists(fs, p) == fs[p].kind # "absent"

Windows == {[app_name |-> "editor", window_title |-> "a.txt"],
            [app_name |-> "editor", window_title |-> "b.txt"]}
NoWindow == [app_name |-> "None", window_title |-> "None"]
ScreenText == "ocr"

NoActivity ==
    [type |-> "None", app_name |-> "", window_title |-> "",
     duration_seconds |-> 0, keywords |-> ""]

extract_keywords(text) == "kw(" \o text \o ")"
embed_text(text) == <<"vec", text>>

ScreenshotActivity ==
    [type |-> "ScreenshotActivity", app_name |-> "", window_title |-> "",
     duration_seconds |-> 0, keywords |-> extract_keywords(ScreenText)]

ApplicationActivity(w, duration) ==
    [type |-> "ApplicationActivity", app_name |-> w.app_name,
     window_title |-> w.window_title, duration_seconds |-> duration,
     keywords |-> extract_keywords(w.window_title \o w.app_name)]

Metadata(activity) == [activity |-> activity, type |-> activity.type]

ntotal(ix) == IF ix = None THEN 0 ELSE Len(ix)

get_activities_metadata(md) == [i \in 1..Len(md) |-> md[i].activity]

SavedData(ix, md) == [kind |-> "joblib", index |-> ix, metadata |-> md, dim |-> dim]

\* ------------------------------------------------------------------- state
VARIABLES
    index,                    \* FaissIndexManager.index
    metadata_store,           \* FaissIndexManager.metadata_store
    current_index_file_path,  \* FaissIndexManager.current_index_file_path
    files,                    \* the session files on disk
    index_lock,               \* ActivityManager.index_lock (its owner)
    session_activites,        \* ActivityManager.session_activites
    state,                    \* ActivityManager.state (RecordingState)
    screen_thread,            \* ActivityManager.screen_thread
    app_thread,               \* ActivityManager.app_thread
    stop_event,               \* ActivityManager.stop_event
    last_app_activity,        \* ActivityManager.last_app_activity
    recorder,                 \* ApplicationActivityRecorder fields
    scr,                      \* the screen poller threads
    app,                      \* the application poller threads
    main,                     \* the coordinating thread
    now,                      \* time.time()
    calls,                    \* number of calls the coordinating thread has made
    pre_switch,               \* history: loaded session when a switch began
    pre_add,                  \* history: index and metadata when add_text began
    inserted_app,             \* history: window of the last inserted ApplicationActivity
    ignored_start,            \* history: the last call was a start_recording while recording
    first_check,              \* history: the current pair's poller has made no interval check yet
    last_check,               \* history: check time of the current pair's last capture, 0 if none
    ui,                       \* SimpleRecorderWindow.is_recording and the menu handler under way
    self_dim,                 \* FaissIndexManager.dim
    merger,                   \* extract_sensitive_sequences: its argument and locals
    shot,                     \* ScreenshotActivityRecorder.record_activity: its locals
    result                    \* outcome of the last call made on the index manager alone

vars == <<index, metadata_store, current_index_file_path, files, index_lock,
          session_activites, state, screen_thread, app_thread, stop_event,
          last_app_activity, recorder, scr, app, main, now, calls,
          pre_switch, pre_add, inserted_app, ignored_start, first_check,
          last_check, ui, self_dim, merger, shot, result>>

\* An image: the OCR chunks it shows and the pixels that have been blurred.
NoImage == [shows |-> <<>>, blurred |-> {}]

\* The screenshot recorder's record_activity is not being called.
NoShot ==
    [pc |-> "none", hide_sensitive_info |-> TRUE, screenshot |-> NoImage,
     text_ocr_chunks |-> <<>>, all_text |-> <<>>, ner_entities |-> <<>>,
     common_pii_sequneces |-> <<>>, bilstm_crf_pii_sequences |-> <<>>,
     pii_extracted_bounding_boxes |-> <<>>, screenshot_activity |-> NoActivity]

\* No pair of pollers has been started.
NoCheck == [screen |-> FALSE, app |-> FALSE]
NoCapture == [screen |-> 0, app |-> 0]
NoMenu == [is_recording |-> FALSE, handler |-> "none", was_active |-> FALSE]

\* extract_sensitive_sequences is not being called.
NoMerger ==
    [pc |-> "none", ner_entities |-> <<>>, i |-> 0, sequences |-> <<>>,
     current_sequence |-> <<>>, current_label_type |-> None]

\* No call has been made on the index manager alone.  after_save is history:
\* the load_index call followed a save_index call that returned.
NoResult ==
    [op |-> "none", error |-> "", text |-> "", texts_len |-> 0,
     metadatas_len |-> 0, k |-> 0, labels |-> <<>>, value |-> <<>>,
     path |-> NoPath, after_save |-> FALSE]

RecordingState(active) ==
    [is_active |-> active, last_screen_time |-> 0, last_app_time |-> 0]

\* A thread object that is not running: never started, or ended.
NoPoller ==
    [pc |-> "dead", current_time |-> 0, activity |-> NoActivity,
     now |-> 0, current_window |-> NoWindow]
\* A thread at the top of its loop; the locals are unassigned there.
AtLoop ==
    [pc |-> "loop", current_time |-> 0, activity |-> NoActivity,
     now |-> 0, current_window |-> NoWindow]

LoadedSession ==
    [index |-> index, metadata |-> metadata_store, path |-> current_index_file_path]

\* values of the history variables outside a switch / outside add_text
NoSwitch == [index |-> None, metadata |-> <<>>, path |-> NoPath]
NoAdd == [index |-> None, metadata |-> <<>>]

Init ==
    /\ index = None
    /\ metadata_store = <<>>
    /\ current_index_file_path = NoPath
    /\ files = [p \in PathArgs |-> NoFile]
    /\ index_lock = NoThread
    /\ session_activites = <<>>
    /\ state = RecordingState(FALSE)
    /\ screen_thread = 0
    /\ app_thread = 0
    /\ stop_event = FALSE
    /\ last_app_activity = NoActivity
    /\ recorder = [last_switch_time |-> 0, last_window |-> NoWindow]
    /\ scr = [i \in Slots |-> NoPoller]
    /\ app = [i \in Slots |-> NoPoller]
    /\ main = [pc |-> "idle", op |-> "none", path |-> NoPath,
               was_recording |-> FALSE, data |-> NoFile, ret |-> "idle"]
    /\ now = StartTime
    /\ calls = 0
    /\ pre_switch = NoSwitch
    /\ pre_add = NoAdd
    /\ inserted_app = NoWindow
    /\ ignored_start = FALSE
    /\ first_check = NoCheck
    /\ last_check = NoCapture
    /\ ui = NoMenu
    /\ self_dim = dim
    /\ merger = NoMerger
    /\ shot = NoShot
    /\ result = NoResult

\* ----------------------------------------------------------------- threads
is_alive(t) == t.pc # "dead"

\* A thread is inside an external-service call, or waits for one to end,
\* for as long as that service takes: only there can join(timeout) expire.
InExternalCall(t) == t.pc \in {"record", "keywords", "embed"}
Blocked(t) == t.pc \in {"record", "keywords", "embed", "lock"}

InAddText(t) == t.pc \in {"embed", "add", "append", "save"}

FreeSlots(thr) == {i \in Slots : ~is_alive(thr[i])}
FirstFree(thr) == CHOOSE i \in FreeSlots(thr) : \A j \in FreeSlots(thr) : i <= j

\* ------------------------------------------------------------ poller helpers
Poller(kind, i) == IF kind = "screen" THEN scr[i] ELSE app[i]

SetPoller(kind, i, t) ==
    IF kind = "screen"
    THEN scr' = [scr EXCEPT ![i] = t] /\ app' = app
    ELSE app' = [app EXCEPT ![i] = t] /\ scr' = scr

\* Mutation: the `with` block is left without releasing the lock.
ReleaseLock_Skipped(kind, i) == index_lock' = index_lock

\* Leaving the `with self.index_lock:` block, normally or by an exception.
ReleaseLock(kind, i) ==
    index_lock' = IF index_lock = Tid(kind, i) THEN NoThread ELSE index_lock

\* Mutation: the exception leaves the lock held by the ended thread.
ExceptBreak_KeepsLock(kind, i) ==
    /\ SetPoller(kind, i, NoPoller)
    /\ index_lock' = index_lock

\* `except Exception: ... break` of a recording loop.
ExceptBreak(kind, i) ==
    /\ SetPoller(kind, i, NoPoller)
    /\ ReleaseLock(kind, i)

\* Captures under way: started and not yet appended to the metadata.
Capturing(t) ==
    t.pc \in {"record", "compute", "keywords", "lock", "embed", "add", "append"}
InFlight == Cardinality({i \in Slots : Capturing(scr[i])})
            + Cardinality({i \in Slots : Capturing(app[i])})
StoreHasRoom ==
    /\ Len(metadata_store) + InFlight < MaxEntries
    /\ ntotal(index) + InFlight < MaxEntries

\* --------------------------------------------- FaissIndexManager.add_text
\* embedding = self.text_embedder.embed_text(text)
add_text_embed(kind, i) ==
    /\ Poller(kind, i).pc = "embed"
    /\ \/ /\ SetPoller(kind, i, [Poller(kind, i) EXCEPT !.pc = "add"])
          /\ UNCHANGED <<index_lock, pre_add>>
       \/ /\ ExceptBreak(kind, i)
          /\ pre_add' = NoAdd
    /\ UNCHANGED <<index, metadata_store, current_index_file_path, files,
                   session_activites, state, screen_thread, app_thread,
                   stop_event, last_app_activity, recorder, main, now, calls,
                   pre_switch, inserted_app, ignored_start, first_check,
                   last_check, ui, self_dim, merger, shot, result>>

\* if self.index is None: raise ...; self.index.add(embedding.reshape(1, -1))
add_text_index_add(kind, i) ==
    /\ Poller(kind, i).pc = "add"
    /\ IF index = None
       THEN /\ ExceptBreak(kind, i)
            /\ pre_add' = NoAdd
            /\ UNCHANGED index
       ELSE /\ index' = Append(index, embed_text(Poller(kind, i).activity.keywords))
            /\ SetPoller(kind, i, [Poller(kind, i) EXCEPT !.pc = "append"])
            /\ UNCHANGED <<index_lock, pre_add>>
    /\ UNCHANGED <<metadata_store, current_index_file_path, files,
                   session_activites, state, screen_thread, app_thread,
                   stop_event, last_app_activity, recorder, main, now, calls,
                   pre_switch, inserted_app, ignored_start, first_check,
                   last_check, ui, self_dim, merger, shot, result>>

\* self.metadata_store.append(metadata)
add_text_append(kind, i) ==
    /\ Poller(kind, i).pc = "append"
    /\ metadata_store' = Append(metadata_store, Metadata(Poller(kind, i).activity))
    /\ SetPoller(kind, i, [Poller(kind, i) EXCEPT !.pc = "save"])
    /\ inserted_app' =
          IF kind = "app"
          THEN [app_name |-> Poller(kind, i).activity.app_name,
                window_title |-> Poller(kind, i).activity.window_title]
          ELSE inserted_app
    /\ UNCHANGED <<index, current_index_file_path, files, index_lock,
                   session_activites, state, screen_thread, app_thread,
                   stop_event, last_app_activity, recorder, main, now, calls,
                   pre_switch, pre_add, ignored_start, first_check, last_check,
                   ui, self_dim, merger, shot, result>>

\* --------------------------------------------- FaissIndexManager.save_index
\* `not self.index` or an unusable path raises before anything is written.
save_index_ready == index # None /\ current_index_file_path # NoPath

\* Mutation: save_index returns without writing the file.
save_index_skipped == files

\* joblib.dump succeeded.
save_index_written ==
    [files EXCEPT ![current_index_file_path] = SavedData(index, metadata_store)]

\* What a failed save may leave on disk: nothing new, or a truncated file.
save_index_failed ==
    IF save_index_ready
    THEN {files, [files EXCEPT ![current_index_file_path] = CorruptFile]}
    ELSE {files}

\* self.save_index() as the last statement of add_text, then the rest of the
\* caller's critical section (screen poller: none).
add_text_save(kind, i) ==
    /\ Poller(kind, i).pc = "save"
    /\ \/ /\ save_index_ready
          /\ files' = save_index_written
          /\ IF kind = "screen"
             THEN /\ ReleaseLock(kind, i)
                  /\ state' = [state EXCEPT
                                 !.last_screen_time = Poller(kind, i).current_time]
                  /\ SetPoller(kind, i, AtLoop)
             ELSE /\ SetPoller(kind, i, [Poller(kind, i) EXCEPT !.pc = "snapshot"])
                  /\ UNCHANGED <<index_lock, state>>
       \/ /\ files' \in save_index_failed
          /\ ExceptBreak(kind, i)
          /\ UNCHANGED state
    /\ pre_add' = NoAdd
    /\ UNCHANGED <<index, metadata_store, current_index_file_path,
                   session_activites, screen_thread, app_thread, stop_event,
                   last_app_activity, recorder, main, now, calls, pre_switch,
                   inserted_app, ignored_start, first_check, last_check, ui,
                   self_dim, merger, shot, result>>

\* ------------------------------- ActivityManager._record_screen_activity
\* while not self.stop_event.is_set(): ... interval check ... time.sleep(0.1)
ScreenLoop(i) ==
    /\ scr[i].pc = "loop"
    /\ IF stop_event
       THEN scr' = [scr EXCEPT ![i] = NoPoller]
       ELSE IF now - state.last_screen_time >= screenshot_interval_seconds
            THEN /\ StoreHasRoom
                 /\ scr' = [scr EXCEPT ![i].pc = "record", ![i].current_time = now]
            ELSE scr' = scr
    /\ first_check' = IF ~stop_event /\ i = screen_thread
                      THEN [first_check EXCEPT !.screen = FALSE]
                      ELSE first_check
    /\ last_check' = IF /\ ~stop_event /\ i = screen_thread
                        /\ now - state.last_screen_time >= screenshot_interval_seconds
                     THEN [last_check EXCEPT !.screen = now]
                     ELSE last_check
    /\ UNCHANGED <<index, metadata_store, current_index_file_path, files,
                   index_lock, session_activites, state, screen_thread,
                   app_thread, stop_event, last_app_activity, recorder, app,
                   main, now, calls, pre_switch, pre_add, inserted_app,
                   ignored_start, ui, self_dim, merger, shot, result>>

\* activity = self.screen_activity_recorder.record_activity()
ScreenRecord(i) ==
    /\ scr[i].pc = "record"
    /\ \/ /\ scr' = [scr EXCEPT ![i].pc = "lock", ![i].activity = ScreenshotActivity]
          /\ UNCHANGED <<app, index_lock>>
       \/ ExceptBreak("screen", i)
    /\ UNCHANGED <<index, metadata_store, current_index_file_path, files,
                   session_activites, state, screen_thread, app_thread,
                   stop_event, last_app_activity, recorder, main, now, calls,
                   pre_switch, pre_add, inserted_app, ignored_start,
                   first_check, last_check, ui, self_dim, merger, shot, result>>

\* with self.index_lock: self.faiss_index_manager.add_text(...)
ScreenLock(i) ==
    /\ scr[i].pc = "lock"
    /\ index_lock = NoThread
    /\ index_lock' = Tid("screen", i)
    /\ scr' = [scr EXCEPT ![i].pc = "embed"]
    /\ pre_add' = [index |-> index, metadata |-> metadata_store]
    /\ UNCHANGED <<index, metadata_store, current_index_file_path, files,
                   session_activites, state, screen_thread, app_thread,
                   stop_event, last_app_activity, recorder, app, main, now,
                   calls, pre_switch, inserted_app, ignored_start, first_check,
                   last_check, ui, self_dim, merger, shot, result>>

\* ---------------------- ApplicationActivityRecorder.record_activity
record_activity_duration(w) ==
    IF recorder.last_window = NoWindow THEN 0
    ELSE IF w # recorder.last_window THEN now - recorder.last_switch_time
    ELSE 0

record_activity_recorder(w) ==
    IF recorder.last_window = NoWindow \/ w # recorder.last_window
    THEN [last_switch_time |-> now, last_window |-> w]
    ELSE recorder

\* ---------------------------------- ActivityManager._record_app_activity
AppLoop(i) ==
    /\ app[i].pc = "loop"
    /\ IF stop_event
       THEN app' = [app EXCEPT ![i] = NoPoller]
       ELSE IF now - state.last_app_time >= app_poll_interval_seconds
            THEN /\ StoreHasRoom
                 /\ app' = [app EXCEPT ![i].pc = "record", ![i].current_time = now]
            ELSE app' = app
    /\ first_check' = IF ~stop_event /\ i = app_thread
                      THEN [first_check EXCEPT !.app = FALSE]
                      ELSE first_check
    /\ last_check' = IF /\ ~stop_event /\ i = app_thread
                        /\ now - state.last_app_time >= app_poll_interval_seconds
                     THEN [last_check EXCEPT !.app = now]
                     ELSE last_check
    /\ UNCHANGED <<index, metadata_store, current_index_file_path, files,
                   index_lock, session_activites, state, screen_thread,
                   app_thread, stop_event, last_app_activity, recorder, scr,
                   main, now, calls, pre_switch, pre_add, inserted_app,
                   ignored_start, ui, self_dim, merger, shot, result>>

\* activity = self.app_activity_recorder.record_activity(); the keyword
\* service is called after the recorder has updated its own fields.
AppRecord(i) ==
    /\ app[i].pc = "record"
    /\ \E w \in Windows :
         /\ recorder' = record_activity_recorder(w)
         /\ \/ /\ app' = [app EXCEPT
                            ![i].pc = "lock",
                            ![i].activity =
                                ApplicationActivity(w, record_activity_duration(w))]
               /\ UNCHANGED <<scr, index_lock>>
            \/ ExceptBreak("app", i)
    /\ UNCHANGED <<index, metadata_store, current_index_file_path, files,
                   session_activites, state, screen_thread, app_thread,
                   stop_event, last_app_activity, main, now, calls, pre_switch,
                   pre_add, inserted_app, ignored_start, first_check,
                   last_check, ui, self_dim, merger, shot, result>>

should_add(activity) ==
    \/ last_app_activity = NoActivity
    \/ activity.app_name # last_app_activity.app_name
    \/ activity.window_title # last_app_activity.window_title

\* with self.index_lock: if <changed>: add_text(...) ...
AppLock(i) ==
    /\ app[i].pc = "lock"
    /\ index_lock = NoThread
    /\ IF should_add(app[i].activity)
       THEN /\ index_lock' = Tid("app", i)
            /\ app' = [app EXCEPT ![i].pc = "embed"]
            /\ pre_add' = [index |-> index, metadata |-> metadata_store]
            /\ UNCHANGED state
       ELSE /\ state' = [state EXCEPT !.last_app_time = app[i].current_time]
            /\ app' = [app EXCEPT ![i] = AtLoop]
            /\ UNCHANGED <<index_lock, pre_add>>
    /\ UNCHANGED <<index, metadata_store, current_index_file_path, files,
                   session_activites, screen_thread, app_thread, stop_event,
                   last_app_activity, recorder, scr, main, now, calls,
                   pre_switch, inserted_app, ignored_start, first_check,
                   last_check, ui, self_dim, merger, shot, result>>

\* the statements after add_text inside the critical section, the release
\* of the lock and self.state.last_app_time = current_time
AppSnapshot(i) ==
    /\ app[i].pc = "snapshot"
    /\ session_activites' = get_activities_metadata(metadata_store)
    /\ recorder' = [recorder EXCEPT !.last_switch_time = now]
    /\ last_app_activity' = app[i].activity
    /\ ReleaseLock("app", i)
    /\ state' = [state EXCEPT !.last_app_time = app[i].current_time]
    /\ app' = [app EXCEPT ![i] = AtLoop]
    /\ UNCHANGED <<index, metadata_store, current_index_file_path, files,
                   screen_thread, app_thread, stop_event, scr, main, now,
                   calls, pre_switch, pre_add, inserted_app, ignored_start,
                   first_check, last_check, ui, self_dim, merger, shot, result>>


\* -------------------------------------------- ActivityManager.start_recording
\* Mutation: the `if self.state.is_active: return` guard is missing.
start_recording_Unguarded ==
    /\ FreeSlots(scr) # {}
    /\ FreeSlots(app) # {}
    /\ state' = RecordingState(TRUE)
    /\ stop_event' = FALSE
    /\ first_check' = [screen |-> TRUE, app |-> TRUE]
    /\ last_check' = NoCapture
    /\ screen_thread' = FirstFree(scr)
    /\ app_thread' = FirstFree(app)
    /\ scr' = [scr EXCEPT ![FirstFree(scr)] = AtLoop]
    /\ app' = [app EXCEPT ![FirstFree(app)] = AtLoop]

start_recording ==
    IF state.is_active
    THEN UNCHANGED <<state, stop_event, screen_thread, app_thread, scr, app,
                     first_check, last_check>>
    ELSE /\ FreeSlots(scr) # {}
         /\ FreeSlots(app) # {}
         /\ state' = RecordingState(TRUE)
         /\ stop_event' = FALSE
         /\ first_check' = [screen |-> TRUE, app |-> TRUE]
         /\ last_check' = NoCapture
         /\ screen_thread' = FirstFree(scr)
         /\ app_thread' = FirstFree(app)
         /\ scr' = [scr EXCEPT ![FirstFree(scr)] = AtLoop]
         /\ app' = [app EXCEPT ![FirstFree(app)] = AtLoop]

MainIdle ==
    [pc |-> "idle", op |-> "none", path |-> NoPath, was_recording |-> FALSE,
     data |-> NoFile, ret |-> "idle"]

MainStartRecording ==
    /\ main.pc = "idle"
    /\ calls < MaxCalls
    /\ calls' = calls + 1
    /\ ignored_start' = state.is_active
    /\ start_recording
    /\ UNCHANGED <<index, metadata_store, current_index_file_path, files,
                   index_lock, session_activites, last_app_activity, recorder,
                   main, now, pre_switch, pre_add, inserted_app, ui, self_dim,
                   merger, shot, result>>

\* --------------------------------------------- ActivityManager.stop_recording
\* self.state.is_active = False; self.stop_event.set(), then the two joins
stop_recording_signal(ret) ==
    /\ state' = [state EXCEPT !.is_active = FALSE]
    /\ stop_event' = TRUE
    /\ main' = [main EXCEPT !.pc = "join_screen", !.ret = ret]

MainStopRecording ==
    /\ main.pc = "idle"
    /\ calls < MaxCalls
    /\ calls' = calls + 1
    /\ ignored_start' = FALSE
    /\ IF ~state.is_active
       THEN UNCHANGED <<state, stop_event, main>>
       ELSE stop_recording_signal("idle")
    /\ UNCHANGED <<index, metadata_store, current_index_file_path, files,
                   index_lock, session_activites, screen_thread, app_thread,
                   last_app_activity, recorder, scr, app, now, pre_switch,
                   pre_add, inserted_app, first_check, last_check, ui,
                   self_dim, merger, shot, result>>

\* thread.join(timeout=2.0) returns when the thread has ended, or when the
\* timeout expires on a thread held up by an external service.
Outlived(handle, thr) == Cardinality({i \in Slots : is_alive(thr[i]) /\ i # handle})

join_returns(handle, thr, abandoned) ==
    \/ handle = 0
    \/ ~is_alive(thr[handle])
    \/ Blocked(thr[handle]) /\ abandoned < MaxAbandoned

MainJoinScreen ==
    /\ main.pc = "join_screen"
    /\ join_returns(screen_thread, scr,
                    Outlived(screen_thread, scr) + Outlived(app_thread, app))
    /\ main' = [main EXCEPT !.pc = "join_app"]
    /\ UNCHANGED <<index, metadata_store, current_index_file_path, files,
                   index_lock, session_activites, state, screen_thread,
                   app_thread, stop_event, last_app_activity, recorder, scr,
                   app, now, calls, pre_switch, pre_add, inserted_app,
                   ignored_start, first_check, last_check, ui, self_dim,
                   merger, shot, result>>

MainJoinApp ==
    /\ main.pc = "join_app"
    /\ join_returns(app_thread, app, Cardinality({i \in Slots : is_alive(scr[i])})
                                      + Outlived(app_thread, app))
    /\ main' = IF main.ret = "idle" THEN MainIdle ELSE [main EXCEPT !.pc = main.ret]
    /\ UNCHANGED <<index, metadata_store, current_index_file_path, files,
                   index_lock, session_activites, state, screen_thread,
                   app_thread, stop_event, last_app_activity, recorder, scr,
                   app, now, calls, pre_switch, pre_add, inserted_app,
                   ignored_start, first_check, last_check, ui, self_dim,
                   merger, shot, result>>

\* ------------------------- ActivityManager.load_session / create_session
\* path normalisation, was_recording = self.state.is_active, stop if active
SwitchBegin(op, p) ==
    /\ main.pc = "idle"
    /\ calls < MaxCalls
    /\ calls' = calls + 1
    /\ ignored_start' = FALSE
    /\ pre_switch' = LoadedSession
    /\ LET first == IF op = "load" THEN "li_exists" ELSE "ci_exists"
           m == [main EXCEPT !.op = op, !.path = NormalizePath(p),
                             !.was_recording = state.is_active]
       IN IF state.is_active
          THEN /\ state' = [state EXCEPT !.is_active = FALSE]
               /\ stop_event' = TRUE
               /\ main' = [m EXCEPT !.pc = "join_screen", !.ret = first]
          ELSE /\ main' = [m EXCEPT !.pc = first]
               /\ UNCHANGED <<state, stop_event>>
    /\ UNCHANGED <<index, metadata_store, current_index_file_path, files,
                   index_lock, session_activites, screen_thread, app_thread,
                   last_app_activity, recorder, scr, app, now, pre_add,
                   inserted_app, first_check, last_check, ui, self_dim, merger,
                   shot, result>>

MainLoadSession == \E p \in PathArgs : SwitchBegin("load", p)

MainCreateSession == \E p \in PathArgs : SwitchBegin("create", p)

\* ---------------------------------------------- FaissIndexManager.load_index
\* os.path.exists check and joblib.load
load_index_read ==
    /\ main.pc = "li_exists"
    /\ \/ /\ files[main.path].kind = "joblib"
          /\ main' = [main EXCEPT !.pc = "li_index", !.data = files[main.path]]
       \/ main' = [main EXCEPT !.pc = "sw_except"]
    /\ UNCHANGED <<index, metadata_store, current_index_file_path, files,
                   index_lock, session_activites, state, screen_thread,
                   app_thread, stop_event, last_app_activity, recorder, scr,
                   app, now, calls, pre_switch, pre_add, inserted_app,
                   ignored_start, first_check, last_check, ui, self_dim,
                   merger, shot, result>>

\* self.index = data['index']
load_index_set_index ==
    /\ main.pc = "li_index"
    /\ index' = main.data.index
    /\ main' = [main EXCEPT !.pc = "li_metadata"]
    /\ UNCHANGED <<metadata_store, current_index_file_path, files, index_lock,
                   session_activites, state, screen_thread, app_thread,
                   stop_event, last_app_activity, recorder, scr, app, now,
                   calls, pre_switch, pre_add, inserted_app, ignored_start,
                   first_check, last_check, ui, self_dim, merger, shot, result>>

\* self.metadata_store = data.get('metadata', [])
load_index_set_metadata ==
    /\ main.pc = "li_metadata"
    /\ metadata_store' = main.data.metadata
    /\ main' = [main EXCEPT !.pc = "li_path"]
    /\ UNCHANGED <<index, current_index_file_path, files, index_lock,
                   session_activites, state, screen_thread, app_thread,
                   stop_event, last_app_activity, recorder, scr, app, now,
                   calls, pre_switch, pre_add, inserted_app, ignored_start,
                   first_check, last_check, ui, self_dim, merger, shot, result>>

\* self.dim = data.get('dim', self.dim)
\* self.current_index_file_path = index_pkl_path
load_index_set_path ==
    /\ main.pc = "li_path"
    /\ self_dim' = main.data.dim
    /\ current_index_file_path' = main.path
    /\ main' = [main EXCEPT !.pc = "sw_snapshot"]
    /\ UNCHANGED <<index, metadata_store, files, index_lock, session_activites,
                   state, screen_thread, app_thread, stop_event,
                   last_app_activity, recorder, scr, app, now, calls,
                   pre_switch, pre_add, inserted_app, ignored_start,
                   first_check, last_check, ui, merger, shot, result>>

\* -------------------------------------------- FaissIndexManager.create_index
\* if os.path.exists(index_pkl_path): self.load_index(...) else: ...
create_index_exists ==
    /\ main.pc = "ci_exists"
    /\ main' = [main EXCEPT !.pc = IF path_exists(files, main.path)
                                   THEN "li_exists" ELSE "ci_index"]
    /\ UNCHANGED <<index, metadata_store, current_index_file_path, files,
                   index_lock, session_activites, state, screen_thread,
                   app_thread, stop_event, last_app_activity, recorder, scr,
                   app, now, calls, pre_switch, pre_add, inserted_app,
                   ignored_start, first_check, last_check, ui, self_dim,
                   merger, shot, result>>

\* self.index = faiss.IndexFlatL2(self.dim)
create_index_new_index ==
    /\ main.pc = "ci_index"
    /\ index' = <<>>
    /\ main' = [main EXCEPT !.pc = "ci_metadata"]
    /\ UNCHANGED <<metadata_store, current_index_file_path, files, index_lock,
                   session_activites, state, screen_thread, app_thread,
                   stop_event, last_app_activity, recorder, scr, app, now,
                   calls, pre_switch, pre_add, inserted_app, ignored_start,
                   first_check, last_check, ui, self_dim, merger, shot, result>>

\* self.metadata_store = []
create_index_new_metadata ==
    /\ main.pc = "ci_metadata"
    /\ metadata_store' = <<>>
    /\ main' = [main EXCEPT !.pc = "ci_path"]
    /\ UNCHANGED <<index, current_index_file_path, files, index_lock,
                   session_activites, state, screen_thread, app_thread,
                   stop_event, last_app_activity, recorder, scr, app, now,
                   calls, pre_switch, pre_add, inserted_app, ignored_start,
                   first_check, last_check, ui, self_dim, merger, shot, result>>

\* self.current_index_file_path = index_pkl_path (before the save)
create_index_set_path ==
    /\ main.pc = "ci_path"
    /\ current_index_file_path' = main.path
    /\ main' = [main EXCEPT !.pc = "ci_save"]
    /\ UNCHANGED <<index, metadata_store, files, index_lock, session_activites,
                   state, screen_thread, app_thread, stop_event,
                   last_app_activity, recorder, scr, app, now, calls,
                   pre_switch, pre_add, inserted_app, ignored_start,
                   first_check, last_check, ui, self_dim, merger, shot, result>>

\* self.save_index()
create_index_save ==
    /\ main.pc = "ci_save"
    /\ \/ /\ save_index_ready
          /\ files' = save_index_written
          /\ main' = [main EXCEPT !.pc = "sw_snapshot"]
       \/ /\ files' \in save_index_failed
          /\ main' = [main EXCEPT !.pc = "sw_except"]
    /\ UNCHANGED <<index, metadata_store, current_index_file_path, index_lock,
                   session_activites, state, screen_thread, app_thread,
                   stop_event, last_app_activity, recorder, scr, app, now,
                   calls, pre_switch, pre_add, inserted_app, ignored_start,
                   first_check, last_check, ui, self_dim, merger, shot, result>>

\* create_index's last assignment of the path, the returned
\* get_activities_metadata() and its assignment to self.session_activites
SwitchSnapshot ==
    /\ main.pc = "sw_snapshot"
    /\ current_index_file_path' =
          IF main.op = "create" THEN main.path ELSE current_index_file_path
    /\ session_activites' = get_activities_metadata(metadata_store)
    /\ main' = [main EXCEPT !.pc = "sw_restart"]
    /\ UNCHANGED <<index, metadata_store, files, index_lock, state,
                   screen_thread, app_thread, stop_event, last_app_activity,
                   recorder, scr, app, now, calls, pre_switch, pre_add,
                   inserted_app, ignored_start, first_check, last_check, ui,
                   self_dim, merger, shot, result>>

\* if was_recording: self.start_recording()
SwitchRestart ==
    /\ main.pc = "sw_restart"
    /\ IF main.was_recording
       THEN start_recording
       ELSE UNCHANGED <<state, stop_event, screen_thread, app_thread, scr, app,
                        first_check, last_check>>
    /\ main' = MainIdle
    /\ pre_switch' = NoSwitch
    /\ UNCHANGED <<index, metadata_store, current_index_file_path, files,
                   index_lock, session_activites, last_app_activity, recorder,
                   now, calls, pre_add, inserted_app, ignored_start, ui,
                   self_dim, merger, shot, result>>

\* except Exception: if was_recording: self.start_recording(); raise
SwitchExcept ==
    /\ main.pc = "sw_except"
    /\ IF main.was_recording
       THEN start_recording
       ELSE UNCHANGED <<state, stop_event, screen_thread, app_thread, scr, app,
                        first_check, last_check>>
    /\ main' = MainIdle
    /\ pre_switch' = NoSwitch
    /\ UNCHANGED <<index, metadata_store, current_index_file_path, files,
                   index_lock, session_activites, last_app_activity, recorder,
                   now, calls, pre_add, inserted_app, ignored_start, ui,
                   self_dim, merger, shot, result>>

\* ------------------------------------------------------------ specification
ScreenPoller ==
    \E i \in Slots :
       \/ ScreenLoop(i)
       \/ ScreenRecord(i)
       \/ ScreenLock(i)
       \/ add_text_embed("screen", i)
       \/ add_text_index_add("screen", i)
       \/ add_text_append("screen", i)
       \/ add_text_save("screen", i)

AppPoller ==
    \E i \in Slots :
       \/ AppLoop(i)
       \/ AppRecord(i)
       \/ AppLock(i)
       \/ add_text_embed("app", i)
       \/ add_text_index_add("app", i)
       \/ add_text_append("app", i)
       \/ add_text_save("app", i)
       \/ AppSnapshot(i)

Coordinator ==
    \/ MainStartRecording
    \/ MainStopRecording
    \/ MainJoinScreen
    \/ MainJoinApp
    \/ MainLoadSession
    \/ MainCreateSession
    \/ load_index_read
    \/ load_index_set_index
    \/ load_index_set_metadata
    \/ load_index_set_path
    \/ create_index_exists
    \/ create_index_new_index
    \/ create_index_new_metadata
    \/ create_index_set_path
    \/ create_index_save
    \/ SwitchSnapshot
    \/ SwitchRestart
    \/ SwitchExcept

Next == ScreenPoller \/ AppPoller \/ Coordinator

Spec == Init /\ [][Next]_vars

\* ------------------------------------------ stopping, without a bound on
\* the pollers that may be abandoned
\* The recorder window opens on a session that has just been created.
CreatedSession == NormalizePath(CHOOSE p \in PathArgs : TRUE)

StopInit ==
    /\ index = <<>>
    /\ metadata_store = <<>>
    /\ current_index_file_path = CreatedSession
    /\ files = [p \in PathArgs |->
                  IF p = CreatedSession THEN SavedData(<<>>, <<>>) ELSE NoFile]
    /\ index_lock = NoThread
    /\ session_activites = <<>>
    /\ state = RecordingState(FALSE)
    /\ screen_thread = 0
    /\ app_thread = 0
    /\ stop_event = FALSE
    /\ last_app_activity = NoActivity
    /\ recorder = [last_switch_time |-> 0, last_window |-> NoWindow]
    /\ scr = [i \in Slots |-> NoPoller]
    /\ app = [i \in Slots |-> NoPoller]
    /\ main = MainIdle
    /\ now = StartTime
    /\ calls = 0
    /\ pre_switch = NoSwitch
    /\ pre_add = NoAdd
    /\ inserted_app = NoWindow
    /\ ignored_start = FALSE
    /\ first_check = NoCheck
    /\ last_check = NoCapture
    /\ ui = NoMenu
    /\ self_dim = dim
    /\ merger = NoMerger
    /\ shot = NoShot
    /\ result = NoResult

\* Mutation: join() without a timeout.
join_untimed(handle, thr) ==
    \/ handle = 0
    \/ ~is_alive(thr[handle])

\* if thread and thread.is_alive(): thread.join(timeout=2.0)
join_timeout(handle, thr) ==
    \/ handle = 0
    \/ ~is_alive(thr[handle])
    \/ Blocked(thr[handle])

stop_recording_join_screen ==
    /\ main.pc = "join_screen"
    /\ join_timeout(screen_thread, scr)
    /\ main' = [main EXCEPT !.pc = "join_app"]
    /\ UNCHANGED <<index, metadata_store, current_index_file_path, files,
                   index_lock, session_activites, state, screen_thread,
                   app_thread, stop_event, last_app_activity, recorder, scr,
                   app, now, calls, pre_switch, pre_add, inserted_app,
                   ignored_start, first_check, last_check, ui, self_dim,
                   merger, shot, result>>

stop_recording_join_app ==
    /\ main.pc = "join_app"
    /\ join_timeout(app_thread, app)
    /\ main' = IF main.ret = "idle" THEN MainIdle ELSE [main EXCEPT !.pc = main.ret]
    /\ UNCHANGED <<index, metadata_store, current_index_file_path, files,
                   index_lock, session_activites, state, screen_thread,
                   app_thread, stop_event, last_app_activity, recorder, scr,
                   app, now, calls, pre_switch, pre_add, inserted_app,
                   ignored_start, first_check, last_check, ui, self_dim,
                   merger, shot, result>>

StopNext ==
    \/ ScreenPoller
    \/ AppPoller
    \/ MainStartRecording
    \/ MainStopRecording
    \/ stop_recording_join_screen
    \/ stop_recording_join_app

\* The coordinating thread runs, and so does a poller outside the external
\* services; a call to an external service need not return, and a poller
\* waiting for index_lock need not get it.
StopFairness ==
    /\ WF_vars(stop_recording_join_screen)
    /\ WF_vars(stop_recording_join_app)
    /\ \A i \in Slots :
          /\ WF_vars(ScreenLoop(i))
          /\ WF_vars(AppLoop(i))
          /\ WF_vars(AppSnapshot(i))
          /\ \A kind \in {"screen", "app"} :
                /\ WF_vars(add_text_index_add(kind, i))
                /\ WF_vars(add_text_append(kind, i))
                /\ WF_vars(add_text_save(kind, i))

StopSpec == StopInit /\ [][StopNext]_vars /\ StopFairness

\* Every call to an external service returns, and a poller waiting for
\* index_lock gets it once it is free often enough.
ExternalsReturn ==
    \A i \in Slots :
       /\ WF_vars(ScreenRecord(i))
       /\ WF_vars(AppRecord(i))
       /\ SF_vars(ScreenLock(i))
       /\ SF_vars(AppLock(i))
       /\ \A kind \in {"screen", "app"} : WF_vars(add_text_embed(kind, i))

ReturnSpec == StopInit /\ [][StopNext]_vars /\ StopFairness /\ ExternalsReturn

\* ------------------------------------------- the pollers under a running clock
\* record_activity of the application recorder takes three steps here: the
\* window and the time are read, the duration is computed and the recorder
\* updated, the keyword service is called.
Tick ==
    /\ now < StartTime + MaxElapsed
    /\ now' = now + 1
    /\ UNCHANGED <<index, metadata_store, current_index_file_path, files,
                   index_lock, session_activites, state, screen_thread,
                   app_thread, stop_event, last_app_activity, recorder, scr,
                   app, main, calls, pre_switch, pre_add, inserted_app,
                   ignored_start, first_check, last_check, ui, self_dim,
                   merger, shot, result>>

\* process_name, window_title, ... = get_active_window_info(); now = time.time()
record_activity_observe(i) ==
    /\ app[i].pc = "record"
    /\ \/ /\ \E w \in Windows :
                app' = [app EXCEPT ![i].pc = "compute", ![i].now = now,
                                   ![i].current_window = w]
          /\ UNCHANGED <<scr, index_lock>>
       \/ ExceptBreak("app", i)
    /\ UNCHANGED <<index, metadata_store, current_index_file_path, files,
                   session_activites, state, screen_thread, app_thread,
                   stop_event, last_app_activity, recorder, main, now, calls,
                   pre_switch, pre_add, inserted_app, ignored_start,
                   first_check, last_check, ui, self_dim, merger, shot, result>>

\* if self.last_window is None ... elif current_window != self.last_window ...
duration_at(w, t) ==
    IF recorder.last_window = NoWindow THEN 0
    ELSE IF w # recorder.last_window THEN t - recorder.last_switch_time
    ELSE 0

\* if window_changed: self.last_switch_time = now; self.last_window = current_window
recorder_at(w, t) ==
    IF recorder.last_window = NoWindow \/ w # recorder.last_window
    THEN [last_switch_time |-> t, last_window |-> w]
    ELSE recorder

record_activity_compute(i) ==
    /\ app[i].pc = "compute"
    /\ recorder' = recorder_at(app[i].current_window, app[i].now)
    /\ app' = [app EXCEPT
                 ![i].pc = "keywords",
                 ![i].activity =
                     ApplicationActivity(app[i].current_window,
                                         duration_at(app[i].current_window,
                                                     app[i].now)),
                 ![i].now = 0,
                 ![i].current_window = NoWindow]
    /\ UNCHANGED <<index, metadata_store, current_index_file_path, files,
                   index_lock, session_activites, state, screen_thread,
                   app_thread, stop_event, last_app_activity, scr, main, now,
                   calls, pre_switch, pre_add, inserted_app, ignored_start,
                   first_check, last_check, ui, self_dim, merger, shot, result>>

\* keywords=self.keyword_extractor.extract_keywords(...) and the return
record_activity_keywords(i) ==
    /\ app[i].pc = "keywords"
    /\ \/ /\ app' = [app EXCEPT ![i].pc = "lock"]
          /\ UNCHANGED <<scr, index_lock>>
       \/ ExceptBreak("app", i)
    /\ UNCHANGED <<index, metadata_store, current_index_file_path, files,
                   session_activites, state, screen_thread, app_thread,
                   stop_event, last_app_activity, recorder, main, now, calls,
                   pre_switch, pre_add, inserted_app, ignored_start,
                   first_check, last_check, ui, self_dim, merger, shot, result>>

ClockAppPoller ==
    \E i \in Slots :
       \/ AppLoop(i)
       \/ record_activity_observe(i)
       \/ record_activity_compute(i)
       \/ record_activity_keywords(i)
       \/ AppLock(i)
       \/ add_text_embed("app", i)
       \/ add_text_index_add("app", i)
       \/ add_text_append("app", i)
       \/ add_text_save("app", i)
       \/ AppSnapshot(i)

ClockNext ==
    \/ Tick
    \/ ScreenPoller
    \/ ClockAppPoller
    \/ MainStartRecording
    \/ MainStopRecording
    \/ stop_recording_join_screen
    \/ stop_recording_join_app

ClockSpec == StopInit /\ [][ClockNext]_vars

\* ------------------------------------ FaissIndexManager, called by one thread
\* Each call is one step; result records how the call ended.
Texts == {"a", "b", "c"}

\* The embedder maps each text to a fixed point; one coordinate stands for
\* the dim coordinates.
Coordinate(text) == CASE text = "a" -> 0 [] text = "b" -> 1 [] OTHER -> 3

\* IndexFlatL2: squared Euclidean distance
L2(v, w) == (Coordinate(v[2]) - Coordinate(w[2])) * (Coordinate(v[2]) - Coordinate(w[2]))

\* The callers build the metadata from the activity whose keywords they index.
TextActivity(text) ==
    [type |-> "ScreenshotActivity", app_name |-> "", window_title |-> "",
     duration_seconds |-> 0, keywords |-> text]

Batches == UNION {[1..n -> Texts] : n \in 0..MaxBatch}

Returned(op) == [NoResult EXCEPT !.op = op]
Raised(op, error) == [NoResult EXCEPT !.op = op, !.error = error]

\* Mutation: the data dict is written without its 'metadata' entry.
joblib_dump_without_metadata(fs, path, ix, md) ==
    [fs EXCEPT ![path] = SavedData(ix, <<>>)]

joblib_dump(fs, path, ix, md) == [fs EXCEPT ![path] = SavedData(ix, md)]

\* What a raising save_index may leave at the path.
dump_failed(fs, path) == {fs, [fs EXCEPT ![path] = CorruptFile]}

\* Mutation: the metadata entry is appended before the index is tested.
add_text_appending_first(text) ==
    /\ calls < MaxOps
    /\ calls' = calls + 1
    /\ index = None
    /\ metadata_store' = Append(metadata_store, Metadata(TextActivity(text)))
    /\ result' = [Raised("add_text", "TypeError") EXCEPT !.text = text]
    /\ UNCHANGED <<index, current_index_file_path, files, index_lock,
                   session_activites, state, screen_thread, app_thread,
                   stop_event, last_app_activity, recorder, scr, app, main,
                   now, pre_switch, pre_add, inserted_app, ignored_start,
                   first_check, last_check, ui, self_dim, merger, shot>>

\* Mutation: the new vector and the new entry go to the front.
add_text_prepending(text) ==
    /\ calls < MaxOps
    /\ calls' = calls + 1
    /\ index # None
    /\ ntotal(index) < MaxStored
    /\ index' = <<embed_text(text)>> \o index
    /\ metadata_store' = <<Metadata(TextActivity(text))>> \o metadata_store
    /\ files' = joblib_dump(files, current_index_file_path, index', metadata_store')
    /\ result' = [Returned("add_text") EXCEPT !.text = text]
    /\ UNCHANGED <<current_index_file_path, index_lock, session_activites,
                   state, screen_thread, app_thread, stop_event,
                   last_app_activity, recorder, scr, app, main, now,
                   pre_switch, pre_add, inserted_app, ignored_start,
                   first_check, last_check, ui, self_dim, merger, shot>>

add_text(text) ==
    /\ calls < MaxOps
    /\ calls' = calls + 1
    /\ \/ /\ result' = [Raised("add_text", "embed_text") EXCEPT !.text = text]
          /\ UNCHANGED <<index, metadata_store, files>>
       \/ /\ index = None
          /\ result' = [Raised("add_text", "TypeError") EXCEPT !.text = text]
          /\ UNCHANGED <<index, metadata_store, files>>
       \/ /\ index # None
          /\ ntotal(index) < MaxStored
          /\ index' = Append(index, embed_text(text))
          /\ metadata_store' = Append(metadata_store, Metadata(TextActivity(text)))
          /\ \/ /\ files' = joblib_dump(files, current_index_file_path,
                                        index', metadata_store')
                /\ result' = [Returned("add_text") EXCEPT !.text = text]
             \/ /\ files' \in dump_failed(files, current_index_file_path)
                /\ result' = [Raised("add_text", "save_index") EXCEPT !.text = text]
    /\ UNCHANGED <<current_index_file_path, index_lock, session_activites,
                   state, screen_thread, app_thread, stop_event,
                   last_app_activity, recorder, scr, app, main, now,
                   pre_switch, pre_add, inserted_app, ignored_start,
                   first_check, last_check, ui, self_dim, merger, shot>>

\* Mutation: add_texts ends with self.save_index().
add_texts_saving(texts, metadatas) ==
    /\ calls < MaxOps
    /\ calls' = calls + 1
    /\ Len(texts) = Len(metadatas)
    /\ Len(texts) > 0
    /\ index # None
    /\ ntotal(index) + Len(texts) <= MaxStored
    /\ index' = index \o [i \in 1..Len(texts) |-> embed_text(texts[i])]
    /\ metadata_store' = metadata_store \o metadatas
    /\ files' = joblib_dump(files, current_index_file_path, index', metadata_store')
    /\ result' = [NoResult EXCEPT !.op = "add_texts", !.texts_len = Len(texts),
                                  !.metadatas_len = Len(metadatas)]
    /\ UNCHANGED <<current_index_file_path, index_lock, session_activites,
                   state, screen_thread, app_thread, stop_event,
                   last_app_activity, recorder, scr, app, main, now,
                   pre_switch, pre_add, inserted_app, ignored_start,
                   first_check, last_check, ui, self_dim, merger, shot>>

\* Mutation: the length test is missing.
add_texts_unchecked(texts, metadatas) ==
    /\ calls < MaxOps
    /\ calls' = calls + 1
    /\ index # None
    /\ ntotal(index) + Len(texts) <= MaxStored
    /\ index' = index \o [i \in 1..Len(texts) |-> embed_text(texts[i])]
    /\ metadata_store' = metadata_store \o metadatas
    /\ result' = [NoResult EXCEPT !.op = "add_texts", !.texts_len = Len(texts),
                                  !.metadatas_len = Len(metadatas)]
    /\ UNCHANGED <<current_index_file_path, files, index_lock,
                   session_activites, state, screen_thread, app_thread,
                   stop_event, last_app_activity, recorder, scr, app, main,
                   now, pre_switch, pre_add, inserted_app, ignored_start,
                   first_check, last_check, ui, self_dim, merger, shot>>

add_texts(texts, metadatas) ==
    /\ calls < MaxOps
    /\ calls' = calls + 1
    /\ LET called == [NoResult EXCEPT !.op = "add_texts",
                                      !.texts_len = Len(texts),
                                      !.metadatas_len = Len(metadatas)]
       IN IF Len(texts) # Len(metadatas)
          THEN /\ result' = [called EXCEPT !.error = "ValueError"]
               /\ UNCHANGED <<index, metadata_store>>
          ELSE \/ /\ Len(texts) > 0
                  /\ result' = [called EXCEPT !.error = "embed_text"]
                  /\ UNCHANGED <<index, metadata_store>>
               \/ /\ index = None
                  /\ result' = [called EXCEPT !.error = "TypeError"]
                  /\ UNCHANGED <<index, metadata_store>>
               \/ /\ index # None   \* index.add may reject the empty array
                  /\ Len(texts) = 0
                  /\ result' = [called EXCEPT !.error = "index.add"]
                  /\ UNCHANGED <<index, metadata_store>>
               \/ /\ index # None
                  /\ ntotal(index) + Len(texts) <= MaxStored
                  /\ index' = index \o [i \in 1..Len(texts) |-> embed_text(texts[i])]
                  /\ metadata_store' = metadata_store \o metadatas
                  /\ result' = called
    /\ UNCHANGED <<current_index_file_path, files, index_lock,
                   session_activites, state, screen_thread, app_thread,
                   stop_event, last_app_activity, recorder, scr, app, main,
                   now, pre_switch, pre_add, inserted_app, ignored_start,
                   first_check, last_check, ui, self_dim, merger, shot>>

save_index ==
    /\ calls < MaxOps
    /\ calls' = calls + 1
    /\ IF index = None
       THEN /\ result' = Raised("save_index", "ValueError")
            /\ UNCHANGED files
       ELSE \/ /\ files' = joblib_dump(files, current_index_file_path,
                                        index, metadata_store)
               /\ result' = Returned("save_index")
            \/ /\ files' \in dump_failed(files, current_index_file_path)
               /\ result' = Raised("save_index", "joblib.dump")
    /\ UNCHANGED <<index, metadata_store, current_index_file_path, index_lock,
                   session_activites, state, screen_thread, app_thread,
                   stop_event, last_app_activity, recorder, scr, app, main,
                   now, pre_switch, pre_add, inserted_app, ignored_start,
                   first_check, last_check, ui, self_dim, merger, shot>>

\* Mutation: the session in memory is dropped before the file is looked for.
load_index_resetting(p) ==
    /\ calls < MaxOps
    /\ calls' = calls + 1
    /\ LET path == NormalizePath(p)
       IN /\ ~path_exists(files, path)
          /\ index' = None
          /\ metadata_store' = <<>>
          /\ current_index_file_path' = path
          /\ result' = [Raised("load_index", "FileNotFoundError") EXCEPT
                           !.path = path]
    /\ UNCHANGED <<files, index_lock, session_activites, state, screen_thread,
                   app_thread, stop_event, last_app_activity, recorder, scr,
                   app, main, now, pre_switch, pre_add, inserted_app,
                   ignored_start, first_check, last_check, ui, self_dim,
                   merger, shot>>

load_index(p) ==
    /\ calls < MaxOps
    /\ calls' = calls + 1
    /\ LET path == NormalizePath(p)
       IN IF files[path].kind = "joblib"
          THEN /\ index' = files[path].index
               /\ metadata_store' = files[path].metadata
               /\ self_dim' = files[path].dim
               /\ current_index_file_path' = path
               /\ result' = [Returned("load_index") EXCEPT
                                !.path = path,
                                !.after_save = (result.op = "save_index"
                                                /\ result.error = ""),
                                !.value = get_activities_metadata(metadata_store')]
          ELSE /\ result' = [Raised("load_index",
                                    IF path_exists(files, path) THEN "joblib.load"
                                    ELSE "FileNotFoundError") EXCEPT !.path = path]
               /\ UNCHANGED <<index, metadata_store, self_dim,
                              current_index_file_path>>
    /\ UNCHANGED <<files, index_lock, session_activites, state, screen_thread,
                   app_thread, stop_event, last_app_activity, recorder, scr,
                   app, main, now, pre_switch, pre_add, inserted_app,
                   ignored_start, first_check, last_check, ui, merger, shot>>

create_index(p) ==
    /\ calls < MaxOps
    /\ calls' = calls + 1
    /\ LET path == NormalizePath(p)
       IN IF path_exists(files, path)
          THEN IF files[path].kind = "joblib"
               THEN /\ index' = files[path].index
                    /\ metadata_store' = files[path].metadata
                    /\ self_dim' = files[path].dim
                    /\ current_index_file_path' = path
                    /\ result' = [Returned("create_index") EXCEPT
                                     !.path = path,
                                     !.value = get_activities_metadata(metadata_store')]
                    /\ UNCHANGED files
               ELSE /\ result' = [Raised("create_index", "joblib.load") EXCEPT
                                     !.path = path]
                    /\ UNCHANGED <<index, metadata_store, self_dim,
                                   current_index_file_path, files>>
          ELSE /\ index' = <<>>
               /\ metadata_store' = <<>>
               /\ current_index_file_path' = path
               /\ UNCHANGED self_dim
               /\ \/ /\ files' = joblib_dump(files, path, index', metadata_store')
                     /\ result' = [Returned("create_index") EXCEPT
                                      !.path = path,
                                      !.value = get_activities_metadata(metadata_store')]
                  \/ /\ files' \in dump_failed(files, path)
                     /\ result' = [Raised("create_index", "save_index") EXCEPT
                                      !.path = path]
    /\ UNCHANGED <<index_lock, session_activites, state, screen_thread,
                   app_thread, stop_event, last_app_activity, recorder, scr,
                   app, main, now, pre_switch, pre_add, inserted_app,
                   ignored_start, first_check, last_check, ui, merger, shot>>

\* index.search: the positions (from 0) of the stored vectors in order of
\* non-decreasing distance, cut to k and padded with -1 when fewer than k
\* vectors are stored.
Rankings(ix, q) ==
    {f \in [1..Len(ix) -> 0..(Len(ix) - 1)] :
        /\ \A i, j \in 1..Len(ix) : i # j => f[i] # f[j]
        /\ \A i, j \in 1..Len(ix) :
              i < j => L2(ix[f[i] + 1], q) <= L2(ix[f[j] + 1], q)}

index_search(ix, q, k) ==
    {[j \in 1..k |-> IF j <= Len(ix) THEN f[j] ELSE -1] : f \in Rankings(ix, q)}

\* list[idx] of Python: a negative idx counts from the end
getitem(list, idx) == IF idx >= 0 THEN list[idx + 1] ELSE list[Len(list) + idx + 1]

\* list[idx] raises IndexError when idx is beyond either end
getitem_raises(list, idx) == idx >= Len(list) \/ idx < 0 - Len(list)

\* the loop reaches a position that passes the bounds test and cannot be read
search_raises(md, labels) ==
    \E j \in 1..Len(labels) : labels[j] < Len(md) /\ getitem_raises(md, labels[j])

\* for idx in indices[0]: if idx < len(self.metadata_store): results.append(...)
search_results(md, labels) ==
    LET F[j \in 0..Len(labels)] ==
          IF j = 0 THEN <<>>
          ELSE IF labels[j] < Len(md)
               THEN Append(F[j - 1], getitem(md, labels[j]).activity)
               ELSE F[j - 1]
    IN F[Len(labels)]

search_by_text(query, k) ==
    /\ calls < MaxOps
    /\ calls' = calls + 1
    /\ IF index = None
       THEN result' = [Raised("search_by_text", "ValueError") EXCEPT
                         !.text = query, !.k = k]
       ELSE \E labels \in index_search(index, embed_text(query), k) :
               IF search_raises(metadata_store, labels)
               THEN result' = [Raised("search_by_text", "IndexError") EXCEPT
                                 !.text = query, !.k = k, !.labels = labels]
               ELSE result' = [Returned("search_by_text") EXCEPT
                                 !.text = query, !.k = k, !.labels = labels,
                                 !.value = search_results(metadata_store, labels)]
    /\ UNCHANGED <<index, metadata_store, current_index_file_path, files,
                   index_lock, session_activites, state, screen_thread,
                   app_thread, stop_event, last_app_activity, recorder, scr,
                   app, main, now, pre_switch, pre_add, inserted_app,
                   ignored_start, first_check, last_check, ui, self_dim,
                   merger, shot>>

\* A session name under which nothing is ever stored.
MissingSession == [name |-> "s0", joblib |-> FALSE]

\* The paths load_index is called with, and the paths of the disk.
LoadArgs == PathArgs \cup {MissingSession}
Disk == PathArgs \cup {NormalizePath(MissingSession)}

IndexNext ==
    \/ \E text \in Texts : add_text(text)
    \/ \E texts \in Batches, mtexts \in Batches :
          add_texts(texts, [i \in 1..Len(mtexts) |-> Metadata(TextActivity(mtexts[i]))])
    \/ save_index
    \/ \E p \in LoadArgs : load_index(p)
    \/ \E p \in PathArgs : create_index(p)
    \/ \E query \in Texts, k \in 1..MaxK : search_by_text(query, k)

\* A new manager; the disk is empty or holds a session saved by an earlier run.
EarlierSession ==
    SavedData(<<embed_text("a")>>, <<Metadata(TextActivity("a"))>>)

IndexInit ==
    /\ index = None
    /\ metadata_store = <<>>
    /\ current_index_file_path = NoPath
    /\ files \in {[p \in Disk |-> NoFile],
                  [p \in Disk |-> IF p = CreatedSession THEN EarlierSession
                                  ELSE NoFile]}
    /\ index_lock = NoThread
    /\ session_activites = <<>>
    /\ state = RecordingState(FALSE)
    /\ screen_thread = 0
    /\ app_thread = 0
    /\ stop_event = FALSE
    /\ last_app_activity = NoActivity
    /\ recorder = [last_switch_time |-> 0, last_window |-> NoWindow]
    /\ scr = [i \in Slots |-> NoPoller]
    /\ app = [i \in Slots |-> NoPoller]
    /\ main = MainIdle
    /\ now = StartTime
    /\ calls = 0
    /\ pre_switch = NoSwitch
    /\ pre_add = NoAdd
    /\ inserted_app = NoWindow
    /\ ignored_start = FALSE
    /\ first_check = NoCheck
    /\ last_check = NoCapture
    /\ ui = NoMenu
    /\ self_dim = dim
    /\ merger = NoMerger
    /\ shot = NoShot
    /\ result = NoResult

IndexSpec == IndexInit /\ [][IndexNext]_vars


\* ----------------------------------------------------------------- strings
\* A str is the sequence of its characters.
\* sub in s
Contains(s, sub) ==
    \E k \in 0..(Len(s) - Len(sub)) : SubSeq(s, k + 1, k + Len(sub)) = sub

\* s.find(sub) + 1: the first place where sub starts, 0 when there is none
Find(s, sub) ==
    IF Contains(s, sub)
    THEN CHOOSE k \in 1..(Len(s) - Len(sub) + 1) :
            /\ SubSeq(s, k, k + Len(sub) - 1) = sub
            /\ \A j \in 1..(k - 1) : SubSeq(s, j, j + Len(sub) - 1) # sub
    ELSE 0

\* s.replace(old, new) for a non-empty old: left to right, not overlapping
RECURSIVE Replace(_, _, _)
Replace(s, old, new) ==
    IF Find(s, old) = 0 THEN s
    ELSE SubSeq(s, 1, Find(s, old) - 1) \o new
         \o Replace(SubSeq(s, Find(s, old) + Len(old), Len(s)), old, new)

\* "".join(parts)
RECURSIVE Join(_)
Join(parts) == IF parts = <<>> THEN <<>> ELSE Head(parts) \o Join(Tail(parts))

\* ------------------------------------- utils.extract_sensitive_sequences
FIRSTNAME == <<"F", "I", "R", "S", "T", "N", "A", "M", "E">>
AGE == <<"A", "G", "E">>

\* TokenizerConfig.non_senstive_label2id (its keys)
non_senstive_label2id == {<<"O">>}

NEREntity(text, label) == [entity_text |-> text, entity_label |-> label]

\* The tagged tokens the merger is given: the tokens of "John ##son is 30",
\* a continuation tag without a begin tag, a label without a hyphen and a
\* hyphenated label whose prefix is neither B nor I.
Entities ==
    {NEREntity(<<"J", "o", "h", "n">>, <<"B", "-">> \o FIRSTNAME),
     NEREntity(<<"#", "#", "s", "o", "n">>, <<"I", "-">> \o FIRSTNAME),
     NEREntity(<<"i", "s">>, <<"O">>),
     NEREntity(<<"3", "0">>, <<"B", "-">> \o AGE),
     NEREntity(<<"3", "0">>, <<"I", "-">> \o AGE),
     NEREntity(<<"x">>, <<"M", "I", "S", "C">>),
     NEREntity(<<"x">>, <<"E", "-">> \o AGE)}

EntityLists == UNION {[1..n -> Entities] : n \in 0..MaxTokens}

\* sequences = []; current_sequence = []; current_label_type = None
MergerStart(ner_entities) ==
    [pc |-> "for", ner_entities |-> ner_entities, i |-> 1, sequences |-> <<>>,
     current_sequence |-> <<>>, current_label_type |-> None]

entity == merger.ner_entities[merger.i]
label == entity.entity_label

\* prefix, label_type = label.split("-", 1)
prefix == SubSeq(label, 1, Find(label, <<"-">>) - 1)
label_type == SubSeq(label, Find(label, <<"-">>) + 1, Len(label))

\* Mutation: the continuation marker is kept.
clean_text_with_marker == entity.entity_text

\* clean_text = entity.entity_text.replace("##", "")
clean_text == Replace(entity.entity_text, <<"#", "#">>, <<>>)

\* the loop body is entered for the next entity
InLoop == merger.pc = "for" /\ merger.i <= Len(merger.ner_entities)

\* if current_sequence: sequences.append("".join(current_sequence))
closed ==
    IF merger.current_sequence # <<>>
    THEN Append(merger.sequences, Join(merger.current_sequence))
    ELSE merger.sequences

\* close any open sequence and skip (both `continue` branches)
close_and_skip ==
    IF merger.current_sequence # <<>>
    THEN [merger EXCEPT !.i = merger.i + 1, !.sequences = closed,
                        !.current_sequence = <<>>,
                        !.current_label_type = None]
    ELSE [merger EXCEPT !.i = merger.i + 1]

\* close previous if exists; current_sequence = [clean_text]
start_new ==
    [merger EXCEPT !.i = merger.i + 1, !.sequences = closed,
                   !.current_sequence = <<clean_text>>,
                   !.current_label_type = label_type]

\* if label in non_sensitive_labels: ... continue
merger_non_sensitive ==
    /\ InLoop
    /\ label \in non_senstive_label2id
    /\ merger' = close_and_skip
    /\ UNCHANGED <<index, metadata_store, current_index_file_path, files,
                   index_lock, session_activites, state, screen_thread,
                   app_thread, stop_event, last_app_activity, recorder, scr,
                   app, main, now, calls, pre_switch, pre_add, inserted_app,
                   ignored_start, first_check, last_check, ui, self_dim, shot,
                   result>>

\* if "-" in label: ... else: ... continue
merger_no_hyphen ==
    /\ InLoop
    /\ label \notin non_senstive_label2id
    /\ ~Contains(label, <<"-">>)
    /\ merger' = close_and_skip
    /\ UNCHANGED <<index, metadata_store, current_index_file_path, files,
                   index_lock, session_activites, state, screen_thread,
                   app_thread, stop_event, last_app_activity, recorder, scr,
                   app, main, now, calls, pre_switch, pre_add, inserted_app,
                   ignored_start, first_check, last_check, ui, self_dim, shot,
                   result>>

\* if prefix == "B":
merger_begin ==
    /\ InLoop
    /\ label \notin non_senstive_label2id
    /\ Contains(label, <<"-">>)
    /\ prefix = <<"B">>
    /\ merger' = start_new
    /\ UNCHANGED <<index, metadata_store, current_index_file_path, files,
                   index_lock, session_activites, state, screen_thread,
                   app_thread, stop_event, last_app_activity, recorder, scr,
                   app, main, now, calls, pre_switch, pre_add, inserted_app,
                   ignored_start, first_check, last_check, ui, self_dim, shot,
                   result>>

\* Mutation: a continuation token that cannot extend is dropped.
merger_inside_dropping ==
    /\ InLoop
    /\ label \notin non_senstive_label2id
    /\ Contains(label, <<"-">>)
    /\ prefix = <<"I">>
    /\ merger' =
          IF merger.current_label_type = label_type /\ merger.current_sequence # <<>>
          THEN [merger EXCEPT !.i = merger.i + 1,
                              !.current_sequence = Append(@, clean_text)]
          ELSE [merger EXCEPT !.i = merger.i + 1]
    /\ UNCHANGED <<index, metadata_store, current_index_file_path, files,
                   index_lock, session_activites, state, screen_thread,
                   app_thread, stop_event, last_app_activity, recorder, scr,
                   app, main, now, calls, pre_switch, pre_add, inserted_app,
                   ignored_start, first_check, last_check, ui, self_dim, shot,
                   result>>

\* elif prefix == "I":
merger_inside ==
    /\ InLoop
    /\ label \notin non_senstive_label2id
    /\ Contains(label, <<"-">>)
    /\ prefix = <<"I">>
    /\ merger' =
          IF merger.current_label_type = label_type /\ merger.current_sequence # <<>>
          THEN [merger EXCEPT !.i = merger.i + 1,
                              !.current_sequence = Append(@, clean_text)]
          ELSE start_new
    /\ UNCHANGED <<index, metadata_store, current_index_file_path, files,
                   index_lock, session_activites, state, screen_thread,
                   app_thread, stop_event, last_app_activity, recorder, scr,
                   app, main, now, calls, pre_switch, pre_add, inserted_app,
                   ignored_start, first_check, last_check, ui, self_dim, shot,
                   result>>

\* a hyphenated label whose prefix is neither "B" nor "I": neither branch of
\* the if / elif runs
merger_other_prefix ==
    /\ InLoop
    /\ label \notin non_senstive_label2id
    /\ Contains(label, <<"-">>)
    /\ prefix \notin {<<"B">>, <<"I">>}
    /\ merger' = [merger EXCEPT !.i = merger.i + 1]
    /\ UNCHANGED <<index, metadata_store, current_index_file_path, files,
                   index_lock, session_activites, state, screen_thread,
                   app_thread, stop_event, last_app_activity, recorder, scr,
                   app, main, now, calls, pre_switch, pre_add, inserted_app,
                   ignored_start, first_check, last_check, ui, self_dim, shot,
                   result>>

\* Flush tail; return sequences
merger_flush ==
    /\ merger.pc = "for"
    /\ merger.i > Len(merger.ner_entities)
    /\ merger' = [merger EXCEPT !.pc = "return", !.sequences = closed]
    /\ UNCHANGED <<index, metadata_store, current_index_file_path, files,
                   index_lock, session_activites, state, screen_thread,
                   app_thread, stop_event, last_app_activity, recorder, scr,
                   app, main, now, calls, pre_switch, pre_add, inserted_app,
                   ignored_start, first_check, last_check, ui, self_dim, shot,
                   result>>

MergerNext ==
    \/ merger_non_sensitive
    \/ merger_no_hyphen
    \/ merger_begin
    \/ merger_inside
    \/ merger_other_prefix
    \/ merger_flush

MergerInit ==
    /\ index = None
    /\ metadata_store = <<>>
    /\ current_index_file_path = NoPath
    /\ files = [p \in PathArgs |-> NoFile]
    /\ index_lock = NoThread
    /\ session_activites = <<>>
    /\ state = RecordingState(FALSE)
    /\ screen_thread = 0
    /\ app_thread = 0
    /\ stop_event = FALSE
    /\ last_app_activity = NoActivity
    /\ recorder = [last_switch_time |-> 0, last_window |-> NoWindow]
    /\ scr = [k \in Slots |-> NoPoller]
    /\ app = [k \in Slots |-> NoPoller]
    /\ main = MainIdle
    /\ now = StartTime
    /\ calls = 0
    /\ pre_switch = NoSwitch
    /\ pre_add = NoAdd
    /\ inserted_app = NoWindow
    /\ ignored_start = FALSE
    /\ first_check = NoCheck
    /\ last_check = NoCapture
    /\ ui = NoMenu
    /\ self_dim = dim
    /\ merger \in {MergerStart(ner_entities) : ner_entities \in EntityLists}
    /\ shot = NoShot
    /\ result = NoResult

MergerSpec == MergerInit /\ [][MergerNext]_vars

\* ------------------------------------ utils.extract_common_pii_sequences
UpperCase == <<"A", "B", "C", "D", "E", "F", "G", "H", "I", "J", "K", "L", "M",
               "N", "O", "P", "Q", "R", "S", "T", "U", "V", "W", "X", "Y", "Z">>
LowerCase == <<"a", "b", "c", "d", "e", "f", "g", "h", "i", "j", "k", "l", "m",
               "n", "o", "p", "q", "r", "s", "t", "u", "v", "w", "x", "y", "z">>
Digit == {"0", "1", "2", "3", "4", "5", "6", "7", "8", "9"}
Letter == {UpperCase[k] : k \in DOMAIN UpperCase} \cup {LowerCase[k] : k \in DOMAIN LowerCase}

\* str.lower()
lower(s) ==
    [k \in 1..Len(s) |->
        IF \E j \in DOMAIN UpperCase : UpperCase[j] = s[k]
        THEN LowerCase[CHOOSE j \in DOMAIN UpperCase : UpperCase[j] = s[k]]
        ELSE s[k]]

\* " ".join(parts)
RECURSIVE JoinWithSpace(_)
JoinWithSpace(parts) ==
    IF parts = <<>> THEN <<>>
    ELSE IF Len(parts) = 1 THEN Head(parts)
    ELSE Head(parts) \o <<" ">> \o JoinWithSpace(Tail(parts))

\* \w
WordChar(c) == c \in Letter \cup Digit \cup {"_"}

\* \b between text[k] and text[k + 1]; outside the text counts as not \w
WordAt(text, k) == k \in 1..Len(text) /\ WordChar(text[k])
WordBoundary(text, k) == WordAt(text, k) # WordAt(text, k + 1)

AllDigits(s) == \A k \in 1..Len(s) : s[k] \in Digit

\* [-.\s]
PhoneSeparator == {"-", ".", " "}

\* (?:\+?\d{1,3}[-.\s]?)?
CountryCode(s) ==
    \/ s = <<>>
    \/ \E p \in 0..1, d \in 1..3, e \in 0..1 :
          /\ Len(s) = p + d + e
          /\ p = 1 => s[1] = "+"
          /\ AllDigits(SubSeq(s, p + 1, p + d))
          /\ e = 1 => s[Len(s)] \in PhoneSeparator

\* (?:\(?\d{2,4}\)?[-.\s]?)?
AreaCode(s) ==
    \/ s = <<>>
    \/ \E o \in 0..1, d \in 2..4, c \in 0..1, e \in 0..1 :
          /\ Len(s) = o + d + c + e
          /\ o = 1 => s[1] = "("
          /\ AllDigits(SubSeq(s, o + 1, o + d))
          /\ c = 1 => s[o + d + 1] = ")"
          /\ e = 1 => s[Len(s)] \in PhoneSeparator

\* \d{3,4}[-.\s]?\d{3,4}
SubscriberNumber(s) ==
    \E d1 \in 3..4, e \in 0..1, d2 \in 3..4 :
       /\ Len(s) = d1 + e + d2
       /\ AllDigits(SubSeq(s, 1, d1))
       /\ e = 1 => s[d1 + 1] \in PhoneSeparator
       /\ AllDigits(SubSeq(s, d1 + e + 1, Len(s)))

\* the phone pattern without its two \b
Phone(s) ==
    \E i \in 0..Len(s), j \in 0..Len(s) :
       /\ i <= j
       /\ CountryCode(SubSeq(s, 1, i))
       /\ AreaCode(SubSeq(s, i + 1, j))
       /\ SubscriberNumber(SubSeq(s, j + 1, Len(s)))

\* (?:\d[ -]*?){13,16}: 13 to 16 digits, blanks and hyphens between them
CreditCard(s) ==
    /\ \A k \in 1..Len(s) : s[k] \in Digit \cup {" ", "-"}
    /\ Cardinality({k \in 1..Len(s) : s[k] \in Digit}) \in 13..16
    /\ s[1] \in Digit
    /\ s[Len(s)] \in Digit

\* \d{3,4}
CVV(s) == Len(s) \in 3..4 /\ AllDigits(s)

\* \d{3}-\d{2}-\d{4}
SSN(s) ==
    /\ Len(s) = 11
    /\ AllDigits(SubSeq(s, 1, 3)) /\ s[4] = "-"
    /\ AllDigits(SubSeq(s, 5, 6)) /\ s[7] = "-"
    /\ AllDigits(SubSeq(s, 8, 11))

\* The patterns whose matches begin with a digit, '+' or '(' and end with a
\* digit, in the order of the list `patterns`.  The e-mail and the password
\* pattern need an '@', a ':' or an '=' in the text, and so do the two
\* substitutions made before the scan.
patterns == <<"phone", "credit card", "CVV", "SSN">>

\* text[a..b] is a match of \b<pattern>\b
IsMatch(pattern, text, a, b) ==
    /\ text[a] \in Digit \cup {"+", "("}
    /\ text[b] \in Digit
    /\ WordBoundary(text, a - 1)
    /\ WordBoundary(text, b)
    /\ CASE pattern = "phone" -> Phone(SubSeq(text, a, b))
         [] pattern = "credit card" -> CreditCard(SubSeq(text, a, b))
         [] pattern = "CVV" -> CVV(SubSeq(text, a, b))
         [] pattern = "SSN" -> SSN(SubSeq(text, a, b))

\* re.findall(pattern, text) from position `from` on: the leftmost match,
\* taken as far as the greedy quantifiers reach, then the rest of the text
RECURSIVE findall(_, _, _)
findall(pattern, text, from) ==
    LET starts == {a \in from..Len(text) :
                      \E b \in a..Len(text) : IsMatch(pattern, text, a, b)}
    IN  IF starts = {} THEN <<>>
        ELSE LET a == CHOOSE x \in starts : \A y \in starts : x <= y
                 ends == {b \in a..Len(text) : IsMatch(pattern, text, a, b)}
                 b == CHOOSE x \in ends : \A y \in ends : y <= x
             IN  <<SubSeq(text, a, b)>> \o findall(pattern, text, b + 1)

\* for pattern in patterns: matches.append(each match)
RECURSIVE matches_of(_, _)
matches_of(text, k) ==
    IF k > Len(patterns) THEN <<>>
    ELSE findall(patterns[k], text, 1) \o matches_of(text, k + 1)

extract_common_pii_sequences(text) == matches_of(text, 1)

\* ------------------------ ScreenshotActivityRecorder.record_activity
TextOCRChunk(text, text_bounding_box) ==
    [text |-> text, text_bounding_box |-> text_bounding_box]

\* The texts a screen shows: a capitalised name, a number, and the text of a
\* special token of the tokenizer.
ChunkTexts ==
    {<<"J", "o", "h", "n">>, <<"1", "2", "3">>, <<"[", "C", "L", "S", "]">>}

\* The k-th chunk of a screen lies in the k-th unit square of its only row:
\* [[x1, y1], [x2, y1], [x2, y2], [x1, y2]].
BBox(k) == << <<k - 1, 0>>, <<k, 0>>, <<k, 1>>, <<k - 1, 1>> >>

\* ImageGrab.grab(): the screen shows these texts, and nothing is blurred
Screenshot(texts) ==
    [shows |-> [k \in 1..Len(texts) |-> TextOCRChunk(texts[k], BBox(k))],
     blurred |-> {}]

Screens ==
    {texts \in UNION {[1..n -> ChunkTexts] : n \in 0..MaxChunks} :
        Cardinality({k \in 1..Len(texts) : texts[k][1] = "["}) <= MaxBracketed}

\* (min_x, min_y, max_x, max_y) of a polygon's points
min_x(bbox) == CHOOSE x \in {bbox[k][1] : k \in 1..Len(bbox)} :
                  \A k \in 1..Len(bbox) : x <= bbox[k][1]
max_x(bbox) == CHOOSE x \in {bbox[k][1] : k \in 1..Len(bbox)} :
                  \A k \in 1..Len(bbox) : bbox[k][1] <= x
min_y(bbox) == CHOOSE y \in {bbox[k][2] : k \in 1..Len(bbox)} :
                  \A k \in 1..Len(bbox) : y <= bbox[k][2]
max_y(bbox) == CHOOSE y \in {bbox[k][2] : k \in 1..Len(bbox)} :
                  \A k \in 1..Len(bbox) : bbox[k][2] <= y

\* The pixels one polygon's blurred crop is pasted on; a polygon without
\* width or height is skipped.  The polygons of this model are rectangles,
\* so the mask covers the whole crop.
pasted(bbox) ==
    IF max_x(bbox) <= min_x(bbox) \/ max_y(bbox) <= min_y(bbox) THEN {}
    ELSE {<<x, y>> : x \in min_x(bbox)..(max_x(bbox) - 1),
                     y \in min_y(bbox)..(max_y(bbox) - 1)}

\* blur_regions_with_bboxs returns a new image; pil_img is left as it was
blur_regions_with_bboxs(pil_img, bboxes) ==
    [pil_img EXCEPT !.blurred =
        @ \cup UNION {pasted(bboxes[k]) : k \in 1..Len(bboxes)}]

\* text.split(" ") for words separated by single blanks
RECURSIVE Words(_)
Words(text) ==
    IF text = <<>> THEN <<>>
    ELSE IF Find(text, <<" ">>) = 0 THEN <<text>>
    ELSE <<SubSeq(text, 1, Find(text, <<" ">>) - 1)>>
         \o Words(SubSeq(text, Find(text, <<" ">>) + 1, Len(text)))

\* The tokenizer splits a word at every character that is neither a letter
\* nor a digit.
RECURSIVE Pieces(_)
Pieces(word) ==
    IF word = <<>> THEN <<>>
    ELSE IF word[1] \notin Letter \cup Digit
         THEN << <<word[1]>> >> \o Pieces(Tail(word))
         ELSE LET n == CHOOSE m \in 1..Len(word) :
                          /\ \A k \in 1..m : word[k] \in Letter \cup Digit
                          /\ m < Len(word) => word[m + 1] \notin Letter \cup Digit
              IN  <<SubSeq(word, 1, n)>> \o Pieces(SubSeq(word, n + 1, Len(word)))

RECURSIVE Flatten(_)
Flatten(lists) == IF lists = <<>> THEN <<>> ELSE Head(lists) \o Flatten(Tail(lists))

CLS == <<"[", "C", "L", "S", "]">>
SEP == <<"[", "S", "E", "P", "]">>

\* self.tokenizer.convert_ids_to_tokens(X[0][:mask[0].sum()]): the tokenizer
\* named in TokenizerConfig frames the pieces of the text with [CLS] and [SEP]
Tokens(text) ==
    <<CLS>> \o Flatten([k \in 1..Len(Words(text)) |-> Pieces(Words(text)[k])])
    \o <<SEP>>

\* The labels the model gives on these screens (keys of label2id).
NERLabels == {<<"O">>, <<"B", "-">> \o FIRSTNAME, <<"I", "-">> \o FIRSTNAME}
BelowThreshold == <<"c < confidence_score_threshold">>

RECURSIVE Kept(_, _, _)
Kept(tokens, labels, k) ==
    IF k > Len(tokens) THEN <<>>
    ELSE (IF labels[k] = BelowThreshold THEN <<>>
          ELSE <<NEREntity(tokens[k], labels[k])>>)
         \o Kept(tokens, labels, k + 1)

\* What NERBILSTMCRFExtractor.extract can return for a text: every token
\* gets some label and some confidence, and the tokens whose confidence is
\* below the threshold are left out.
NEROutcomes(text) ==
    {Kept(Tokens(text), labels, 1) :
        labels \in [1..Len(Tokens(text)) -> NERLabels \cup {BelowThreshold}]}

\* What KeyBERTKeywrodExtractor.extract_keywords can return: "" for an empty
\* text, else no keyword or the words of the text.
KeywordOutcomes(text) == {<<>>, text}

\* ScreenshotActivity(...) as record_activity builds it
ScreenshotActivityOf(ocr_text, keywords, original, modified) ==
    [type |-> "ScreenshotActivity", screenshot_ocr_text |-> ocr_text,
     keywords |-> keywords, original_screenshot_pil_image |-> original,
     modified_screenshot_pil_image |-> modified]

\* for sequence in ...: if sequence in text_ocr_chunk.text.lower(): append
boxes_of(text_ocr_chunk, sequences) ==
    [k \in 1..Len(SelectSeq(sequences,
                     LAMBDA sequence : Contains(lower(text_ocr_chunk.text), sequence)))
        |-> text_ocr_chunk.text_bounding_box]

\* for text_ocr_chunk in text_ocr_chunks: ...
RECURSIVE matching_loop(_, _)
matching_loop(text_ocr_chunks, sequences) ==
    IF text_ocr_chunks = <<>> THEN <<>>
    ELSE boxes_of(Head(text_ocr_chunks), sequences)
         \o matching_loop(Tail(text_ocr_chunks), sequences)

\* record_activity(hide_sensitive_info=False): lines 69-90
record_activity_bypass ==
    /\ shot.pc = "start"
    /\ \E texts \in Screens :
          shot' = [shot EXCEPT
                     !.pc = "insert",
                     !.hide_sensitive_info = FALSE,
                     !.screenshot = Screenshot(texts),
                     !.screenshot_activity =
                        ScreenshotActivityOf(<<>>, <<>>, Screenshot(texts),
                                             Screenshot(texts))]
    /\ UNCHANGED <<index, metadata_store, current_index_file_path, files,
                   index_lock, session_activites, state, screen_thread,
                   app_thread, stop_event, last_app_activity, recorder, scr,
                   app, main, now, calls, pre_switch, pre_add, inserted_app,
                   ignored_start, first_check, last_check, ui, self_dim,
                   merger, result>>

\* screenshot = self.take_screenshot(); text_ocr_chunks = ...; all_text = ...
record_activity_ocr ==
    /\ shot.pc = "start"
    /\ \E texts \in Screens :
          shot' = [shot EXCEPT
                     !.pc = "ner",
                     !.hide_sensitive_info = TRUE,
                     !.screenshot = Screenshot(texts),
                     !.text_ocr_chunks = Screenshot(texts).shows,
                     !.all_text =
                        JoinWithSpace([k \in 1..Len(texts) |-> lower(texts[k])])]
    /\ UNCHANGED <<index, metadata_store, current_index_file_path, files,
                   index_lock, session_activites, state, screen_thread,
                   app_thread, stop_event, last_app_activity, recorder, scr,
                   app, main, now, calls, pre_switch, pre_add, inserted_app,
                   ignored_start, first_check, last_check, ui, self_dim,
                   merger, result>>

\* ner_entities = self.ner_service.extract(all_text, ner_confidence_threshold)
record_activity_ner ==
    /\ shot.pc = "ner"
    /\ \E ner_entities \in NEROutcomes(shot.all_text) :
          shot' = [shot EXCEPT !.pc = "scan", !.ner_entities = ner_entities]
    /\ UNCHANGED <<index, metadata_store, current_index_file_path, files,
                   index_lock, session_activites, state, screen_thread,
                   app_thread, stop_event, last_app_activity, recorder, scr,
                   app, main, now, calls, pre_switch, pre_add, inserted_app,
                   ignored_start, first_check, last_check, ui, self_dim,
                   merger, result>>

\* common_pii_sequneces = extract_common_pii_sequences(all_text), and the
\* call of extract_sensitive_sequences
record_activity_scan ==
    /\ shot.pc = "scan"
    /\ shot' = [shot EXCEPT
                  !.pc = "merge",
                  !.common_pii_sequneces = extract_common_pii_sequences(shot.all_text)]
    /\ merger' = MergerStart(shot.ner_entities)
    /\ UNCHANGED <<index, metadata_store, current_index_file_path, files,
                   index_lock, session_activites, state, screen_thread,
                   app_thread, stop_event, last_app_activity, recorder, scr,
                   app, main, now, calls, pre_switch, pre_add, inserted_app,
                   ignored_start, first_check, last_check, ui, self_dim, result>>

\* the matching loop, the blur, the keywords and the ScreenshotActivity
record_activity_blur ==
    /\ shot.pc = "merge"
    /\ merger.pc = "return"
    /\ \E keywords \in KeywordOutcomes(shot.all_text) :
          LET boxes == matching_loop(shot.text_ocr_chunks,
                                     merger.sequences \o shot.common_pii_sequneces)
          IN  shot' = [shot EXCEPT
                         !.pc = "insert",
                         !.bilstm_crf_pii_sequences = merger.sequences,
                         !.pii_extracted_bounding_boxes = boxes,
                         !.screenshot_activity =
                            ScreenshotActivityOf(
                               shot.all_text, keywords, shot.screenshot,
                               blur_regions_with_bboxs(shot.screenshot, boxes))]
    /\ merger' = NoMerger
    /\ UNCHANGED <<index, metadata_store, current_index_file_path, files,
                   index_lock, session_activites, state, screen_thread,
                   app_thread, stop_event, last_app_activity, recorder, scr,
                   app, main, now, calls, pre_switch, pre_add, inserted_app,
                   ignored_start, first_check, last_check, ui, self_dim, result>>

\* The OCR, the tagger or the keyword extractor raises; the poller's except
\* clause ends the loop and nothing is stored.
record_activity_raises ==
    /\ \/ shot.pc \in {"start", "ner"}
       \/ shot.pc = "merge" /\ merger.pc = "return"
    /\ shot' = [shot EXCEPT !.pc = "raised"]
    /\ merger' = NoMerger
    /\ UNCHANGED <<index, metadata_store, current_index_file_path, files,
                   index_lock, session_activites, state, screen_thread,
                   app_thread, stop_event, last_app_activity, recorder, scr,
                   app, main, now, calls, pre_switch, pre_add, inserted_app,
                   ignored_start, first_check, last_check, ui, self_dim, result>>

\* with self.index_lock: self.faiss_index_manager.add_text(
\*     text=activity.keywords, metadata={'activity': activity, ...})
record_screen_insert ==
    /\ shot.pc = "insert"
    /\ \/ /\ shot' = [shot EXCEPT !.pc = "raised"]
          /\ UNCHANGED <<index, metadata_store, files>>
       \/ /\ index' = Append(index, embed_text(shot.screenshot_activity.keywords))
          /\ metadata_store' = Append(metadata_store, Metadata(shot.screenshot_activity))
          /\ \/ /\ files' = joblib_dump(files, current_index_file_path,
                                        index', metadata_store')
                /\ shot' = [shot EXCEPT !.pc = "done"]
             \/ /\ files' \in dump_failed(files, current_index_file_path)
                /\ shot' = [shot EXCEPT !.pc = "raised"]
    /\ UNCHANGED <<current_index_file_path, index_lock, session_activites,
                   state, screen_thread, app_thread, stop_event,
                   last_app_activity, recorder, scr, app, main, now, calls,
                   pre_switch, pre_add, inserted_app, ignored_start,
                   first_check, last_check, ui, self_dim, merger, result>>

RedactNext ==
    \/ record_activity_bypass
    \/ record_activity_ocr
    \/ record_activity_ner
    \/ record_activity_scan
    \/ merger_non_sensitive
    \/ merger_begin
    \/ merger_inside
    \/ merger_flush
    \/ record_activity_blur
    \/ record_activity_raises
    \/ record_screen_insert

\* A created session, and the screen poller about to call record_activity.
RedactInit ==
    /\ index = <<>>
    /\ metadata_store = <<>>
    /\ current_index_file_path = CreatedSession
    /\ files = [p \in PathArgs |->
                  IF p = CreatedSession THEN SavedData(<<>>, <<>>) ELSE NoFile]
    /\ index_lock = NoThread
    /\ session_activites = <<>>
    /\ state = RecordingState(FALSE)
    /\ screen_thread = 0
    /\ app_thread = 0
    /\ stop_event = FALSE
    /\ last_app_activity = NoActivity
    /\ recorder = [last_switch_time |-> 0, last_window |-> NoWindow]
    /\ scr = [k \in Slots |-> NoPoller]
    /\ app = [k \in Slots |-> NoPoller]
    /\ main = MainIdle
    /\ now = StartTime
    /\ calls = 0
    /\ pre_switch = NoSwitch
    /\ pre_add = NoAdd
    /\ inserted_app = NoWindow
    /\ ignored_start = FALSE
    /\ first_check = NoCheck
    /\ last_check = NoCapture
    /\ ui = NoMenu
    /\ self_dim = dim
    /\ merger = NoMerger
    /\ shot = [NoShot EXCEPT !.pc = "start"]
    /\ result = NoResult

RedactSpec == RedactInit /\ [][RedactNext]_vars

\* ------------------------------------------------------------------ claims
Pollers == {Tid("screen", i) : i \in Slots} \cup {Tid("app", i) : i \in Slots}
PollerOf(t) == Poller(t[1], t[2])

\* The coordinating thread is inside create_index or load_index.
InIndexCall ==
    main.pc \in {"li_exists", "li_index", "li_metadata", "li_path", "ci_exists",
                 "ci_index", "ci_metadata", "ci_path", "ci_save", "sw_snapshot"}

\* No call on the index manager is in progress.
Quiescent == ~InIndexCall /\ \A t \in Pollers : ~InAddText(PollerOf(t))

WindowOf(activity) ==
    [app_name |-> activity.app_name, window_title |-> activity.window_title]

\* C1: whenever no index-manager call is in progress, the metadata list has
\* as many entries as the index has vectors.
C1_ParallelLengths == Quiescent => Len(metadata_store) = ntotal(index)

\* C2: at most one screen poller and at most one application poller are
\* running at any time.
C2_OnePollerOfEachKind ==
    /\ Cardinality({i \in Slots : is_alive(scr[i])}) <= 1
    /\ Cardinality({i \in Slots : is_alive(app[i])}) <= 1

\* C3: while load_session / create_session, having stopped recording, loads
\* or creates the target session, no poller is executing add_text.
C3_NoAddTextDuringSwitch ==
    (main.was_recording /\ InIndexCall) => \A t \in Pollers : ~InAddText(PollerOf(t))

\* C4: a load_session / create_session call made while recording that ends
\* by re-raising leaves is_active true and the loaded session (index,
\* metadata, path) as it was when the call began.
C4_FailedSwitchRollsBack ==
    [][(main.pc = "sw_except" /\ main.was_recording /\ main'.pc = "idle")
          => (state'.is_active /\ index' = pre_switch.index
              /\ metadata_store' = pre_switch.metadata
              /\ current_index_file_path' = pre_switch.path)]_vars

\* C5: when save_index fails inside add_text, the index and the metadata list
\* are what they were when that add_text call began (stated for the calls
\* that fail while the coordinating thread is between its own calls).
C5_FailedSaveLeavesMemory ==
    [][\A t \in Pollers :
          (PollerOf(t).pc = "save" /\ ~is_alive(PollerOf(t)') /\ main.pc = "idle")
             => (index' = pre_add.index /\ metadata_store' = pre_add.metadata)]_vars

\* C6: a thread that reads or writes the index or the metadata list holds
\* index_lock while it does.
C6_AccessUnderLock ==
    /\ \A t \in Pollers :
          PollerOf(t).pc \in {"add", "append", "save", "snapshot"} => index_lock = t
    /\ main.pc \in {"li_index", "li_metadata", "ci_index", "ci_metadata",
                    "ci_save", "sw_snapshot"} => index_lock = Tid("main", 0)

\* C7: no thread is inside an external-service call while it holds index_lock.
C7_NoExternalCallUnderLock ==
    \A t \in Pollers : InExternalCall(PollerOf(t)) => index_lock # t

\* C8: whenever no index-manager call is in progress, the i-th vector is the
\* embedding of the text of the i-th metadata entry.
C8_PositionsCorrespond ==
    Quiescent =>
       \A i \in 1..ntotal(index) :
          /\ i <= Len(metadata_store)
          /\ index[i] = embed_text(metadata_store[i].activity.keywords)

\* The window of the last ApplicationActivity in a metadata list.
LastAppWindow(md) ==
    LET apps == {i \in 1..Len(md) : md[i].type = "ApplicationActivity"}
    IN IF apps = {} THEN NoWindow
       ELSE WindowOf(md[CHOOSE i \in apps : \A j \in apps : j <= i].activity)

\* C9: an ApplicationActivity is appended only if its (process, title) pair
\* differs from that of the ApplicationActivity appended before it (stated
\* for the appends made while that earlier activity is still the last
\* ApplicationActivity stored).
C9_NoDuplicateInsert ==
    [][\A i \in Slots :
          (app[i].pc = "append" /\ app'[i].pc = "save"
              /\ LastAppWindow(metadata_store) = inserted_app)
             => WindowOf(app[i].activity) # inserted_app]_vars

\* The step in which poller t leaves its loop through its except clause.
Crashes(t) ==
    /\ PollerOf(t).pc \in {"record", "embed", "add", "save"}
    /\ ~is_alive(PollerOf(t)')

\* C10: the step in which one poller's loop ends by an exception changes no
\* other poller, does not reach the coordinating thread, leaves the stop
\* signal and the recording state alone and leaves index_lock free of the
\* ended poller.
C10_CrashIsContained ==
    [][\A t \in Pollers :
          Crashes(t) =>
             /\ \A u \in Pollers \ {t} : PollerOf(u)' = PollerOf(u)
             /\ main' = main
             /\ stop_event' = stop_event
             /\ state' = state
             /\ index_lock' # t]_vars

\* The screen poller of the running pair has ended while recording is active
\* and not stopped, and the application poller of that pair is storing an
\* activity.
C10_Witness ==
    /\ state.is_active
    /\ ~stop_event
    /\ screen_thread # 0
    /\ ~is_alive(scr[screen_thread])
    /\ app_thread # 0
    /\ app[app_thread].pc = "snapshot"
    /\ Len(metadata_store) = ntotal(index)

\* C11: a start_recording call made while is_active is true changes neither
\* the recording state (is_active and both poll timers), nor the stop signal,
\* nor the thread handles, and starts no thread.
C11_StartWhileActiveIsNoOp ==
    [][(main.pc = "idle" /\ state.is_active /\ calls' # calls /\ ignored_start')
          => /\ state' = state
             /\ stop_event' = stop_event
             /\ screen_thread' = screen_thread
             /\ app_thread' = app_thread
             /\ scr' = scr
             /\ app' = app]_vars

\* start_recording has just returned from a call made while recording, and
\* the pair it found running has captured an entry and is still polling.
C11_Witness ==
    /\ ignored_start
    /\ main.pc = "idle"
    /\ state.is_active
    /\ state.last_screen_time > 0
    /\ is_alive(scr[screen_thread])
    /\ is_alive(app[app_thread])

\* C12: a stop_recording call made while recording returns, with is_active
\* false and the stop signal set, even when a poller stays inside an
\* external-service call for ever.
C12_StopReturns ==
    (main.pc \in {"join_screen", "join_app"})
        ~> (main.pc = "idle" /\ ~state.is_active /\ stop_event)

\* stop_recording has returned while both pollers of the stopped pair are
\* still inside an external-service call.
C12_Witness ==
    /\ main.pc = "idle"
    /\ ~state.is_active
    /\ stop_event
    /\ screen_thread # 0
    /\ scr[screen_thread].pc = "record"
    /\ app_thread # 0
    /\ app[app_thread].pc = "embed"

\* C13: with every external-service call returning, a poller that is running
\* when the stop signal is set eventually exits its loop, whatever calls
\* follow the stop.
C13_StoppedPollersExit ==
    \A i \in Slots :
       /\ (stop_event /\ is_alive(scr[i])) ~> ~is_alive(scr[i])
       /\ (stop_event /\ is_alive(app[i])) ~> ~is_alive(app[i])

\* C14: when load_session / create_session returns normally, the session
\* snapshot is the metadata of the loaded session and recording is active
\* exactly if it was active when the call was made.
C14_SwitchSnapshotAndResume ==
    [][(main.pc = "sw_restart" /\ main'.pc = "idle")
          => /\ session_activites' = get_activities_metadata(metadata_store')
             /\ state'.is_active = main.was_recording]_vars

\* The step in which poller t's add_text returns normally.
AddTextReturns(t) ==
    /\ PollerOf(t).pc = "save"
    /\ PollerOf(t)'.pc \in {"loop", "snapshot"}

Called(op) == calls' = calls + 1 /\ result'.op = op

\* C16: add_texts never writes a session file, and a successful add_texts
\* grows the in-memory index and the metadata list by the batch size.
C16_AddTextsDoesNotPersist ==
    [][Called("add_texts") =>
          /\ files' = files
          /\ result'.error = "" =>
                /\ ntotal(index') = ntotal(index) + result'.texts_len
                /\ Len(metadata_store') = Len(metadata_store) + result'.texts_len]_vars

\* A full batch has been added to a created session whose file still holds
\* the empty session.
C16_Witness ==
    /\ result.op = "add_texts"
    /\ result.error = ""
    /\ result.texts_len = MaxBatch
    /\ ntotal(index) = MaxBatch
    /\ Len(metadata_store) = MaxBatch
    /\ files[current_index_file_path] = SavedData(<<>>, <<>>)

\* C17: add_text called while no index is created or loaded ends with an
\* error and leaves the metadata list and every session file unchanged.
C17_AddTextWithoutIndex ==
    [][(Called("add_text") /\ index = None) =>
          /\ result'.error # ""
          /\ index' = None
          /\ metadata_store' = metadata_store
          /\ files' = files]_vars

\* add_text has raised on a manager without an index while a session file of
\* an earlier run is on disk.
C17_Witness ==
    /\ result.op = "add_text"
    /\ result.error = "TypeError"
    /\ index = None
    /\ metadata_store = <<>>
    /\ files[CreatedSession] = EarlierSession

\* C18: add_texts called with texts and metadatas of different lengths ends
\* with the length error, raised before any embedding, and leaves the index
\* and the metadata list unchanged.
C18_AddTextsLengthMismatch ==
    [][(Called("add_texts") /\ result'.texts_len # result'.metadatas_len) =>
          /\ result'.error = "ValueError"
          /\ index' = index
          /\ metadata_store' = metadata_store]_vars

\* add_texts has raised the length error on an index that holds a vector.
C18_Witness ==
    /\ result.op = "add_texts"
    /\ result.error = "ValueError"
    /\ result.texts_len = MaxBatch
    /\ result.metadatas_len = 1
    /\ ntotal(index) = 1
    /\ Len(metadata_store) = 1

Min(a, b) == IF a <= b THEN a ELSE b

\* C19: search_by_text returns the metadata entries of the min(k, stored)
\* nearest stored vectors, in order of non-decreasing squared distance to the
\* embedding of the query.
C19_SearchReturnsNearest ==
    [][(Called("search_by_text") /\ index # None
           /\ Len(metadata_store) = ntotal(index)) =>
          /\ result'.error = ""
          /\ \E f \in Rankings(index, embed_text(result'.text)) :
                result'.value = [j \in 1..Min(result'.k, ntotal(index)) |->
                                   metadata_store[f[j] + 1].activity]]_vars

\* The entries at the reported positions that lie within the metadata list.
within_bounds(md, labels) ==
    LET F[j \in 0..Len(labels)] ==
          IF j = 0 THEN <<>>
          ELSE IF 0 <= labels[j] /\ labels[j] < Len(md)
               THEN Append(F[j - 1], md[labels[j] + 1].activity)
               ELSE F[j - 1]
    IN F[Len(labels)]

\* C20: search_by_text does not raise on a reported position outside the
\* metadata list and returns an entry for none: it returns exactly the
\* entries at the reported positions that lie within the list.
C20_SearchSkipsOutOfBounds ==
    [][(Called("search_by_text") /\ index # None) =>
          /\ result'.error = ""
          /\ result'.value = within_bounds(metadata_store, result'.labels)]_vars

\* C21: a create_index call that returns on a path where a session file is
\* stored has loaded that file's index and metadata and left the file as it
\* was; one that returns on a path without a file leaves an empty index and an
\* empty metadata list in memory and the empty session stored at the path;
\* either way it returns the activities of the metadata list, in order.
\* Stated for the call made alone and for the call made by create_session.
C21_CreateIndexLoadsOrCreates ==
    [][/\ (Called("create_index") /\ result'.error = "") =>
             LET path == result'.path
             IN /\ current_index_file_path' = path
                /\ endswith_joblib(path)
                /\ IF path_exists(files, path)
                   THEN /\ index' = files[path].index
                        /\ metadata_store' = files[path].metadata
                        /\ files' = files
                   ELSE /\ index' = <<>>
                        /\ metadata_store' = <<>>
                        /\ files'[path] = SavedData(<<>>, <<>>)
                /\ result'.value = get_activities_metadata(metadata_store')
       /\ (main.pc = "sw_snapshot" /\ main.op = "create"
             /\ main'.pc = "sw_restart") =>
             /\ current_index_file_path' = main.path
             /\ IF main.data.kind = "joblib"
                THEN /\ index' = main.data.index
                     /\ metadata_store' = main.data.metadata
                     /\ files'[main.path] = main.data
                ELSE /\ index' = <<>>
                     /\ metadata_store' = <<>>
                     /\ files'[main.path] = SavedData(<<>>, <<>>)
             /\ session_activites' = get_activities_metadata(metadata_store')]_vars

\* C22: load_index called on a path where no file is stored ends with the
\* not-found error and leaves the index, the metadata list, the dimension,
\* the current session path and every file as they were.
C22_LoadMissingFails ==
    [][(Called("load_index") /\ ~path_exists(files, result'.path)) =>
          /\ result'.error = "FileNotFoundError"
          /\ index' = index
          /\ metadata_store' = metadata_store
          /\ self_dim' = self_dim
          /\ current_index_file_path' = current_index_file_path
          /\ files' = files]_vars

\* load_index has raised the not-found error while a session with an entry
\* is loaded from another path.
C22_Witness ==
    /\ result.op = "load_index"
    /\ result.error = "FileNotFoundError"
    /\ result.path = NormalizePath(MissingSession)
    /\ current_index_file_path = CreatedSession
    /\ ntotal(index) >= 1
    /\ Len(metadata_store) = ntotal(index)

\* What search_by_text(query, k) can give on an index and a metadata list:
\* the returned activities, or the error it raises.
SearchOutcomes(ix, md, query, k) ==
    {IF search_raises(md, labels) THEN <<"IndexError">>
     ELSE search_results(md, labels) :
        labels \in index_search(ix, embed_text(query), k)}

Vectors(ix) == IF ix = None THEN <<>> ELSE ix

IsPrefix(a, b) == Len(a) <= Len(b) /\ \A i \in 1..Len(a) : a[i] = b[i]

\* The step assigns the index or the metadata list inside load_index or
\* create_index.
SessionAssigned ==
    \/ Called("load_index")
    \/ Called("create_index")
    \/ main.pc \in {"li_index", "li_metadata", "ci_index", "ci_metadata"}

\* C24: every step other than the assignments of load_index / create_index
\* keeps each stored vector and each metadata entry at its position with its
\* content, so add_text and add_texts only add at the end.
C24_AppendOnly ==
    [][~SessionAssigned =>
          /\ IsPrefix(Vectors(index), Vectors(index'))
          /\ IsPrefix(metadata_store, metadata_store')]_vars

\* A batch has been added after a single entry: three entries are stored.
C24_Witness ==
    /\ result.op = "add_texts"
    /\ result.error = ""
    /\ result.texts_len = MaxBatch
    /\ ntotal(index) = MaxStored
    /\ Len(metadata_store) = MaxStored
    /\ metadata_store[1] # metadata_store[2]

\* C25: record_activity gives duration_seconds 0 on the recorder's first
\* observation and when the observed (process, title) pair is the recorder's
\* last window; when the pair differs it gives the time read by this call
\* minus the recorded last switch time, and that is never negative.
C25_DurationZeroOrElapsed ==
    [][\A i \in Slots :
          (app[i].pc = "compute" /\ app'[i].pc = "keywords") =>
             LET w == app[i].current_window
                 d == app'[i].activity.duration_seconds
             IN /\ (recorder.last_window = NoWindow \/ w = recorder.last_window)
                      => d = 0
                /\ (recorder.last_window # NoWindow /\ w # recorder.last_window)
                      => (d = app[i].now - recorder.last_switch_time /\ d >= 0)]_vars

\* The label is B-<T> / I-<T> for some type T.
IsBegin(e) == Len(e.entity_label) > 2 /\ SubSeq(e.entity_label, 1, 2) = <<"B", "-">>
IsInside(e) == Len(e.entity_label) > 2 /\ SubSeq(e.entity_label, 1, 2) = <<"I", "-">>
TypeOf(e) == SubSeq(e.entity_label, 3, Len(e.entity_label))

\* Token k directly continues token k - 1: an I-<T> after a B-<T> or I-<T>.
Continues(ents, k) ==
    /\ k > 1
    /\ k <= Len(ents)
    /\ IsInside(ents[k])
    /\ IsBegin(ents[k - 1]) \/ IsInside(ents[k - 1])
    /\ TypeOf(ents[k - 1]) = TypeOf(ents[k])

\* The last token of the run of continuations that starts at token b.
RunEnd(ents, b) ==
    CHOOSE e \in b..Len(ents) :
       /\ \A k \in (b + 1)..e : Continues(ents, k)
       /\ ~Continues(ents, e + 1)

WithoutMarker(text) == Replace(text, <<"#", "#">>, <<>>)

RunText(ents, b) ==
    Join([k \in 1..(RunEnd(ents, b) - b + 1) |->
             WithoutMarker(ents[b + k - 1].entity_text)])

\* Every label is B-<T>, I-<T> or non-sensitive, and every I-<T> directly
\* continues a B-<T> or I-<T>.
WellTagged(ents) ==
    \A k \in 1..Len(ents) :
       \/ ents[k].entity_label \in non_senstive_label2id
       \/ IsBegin(ents[k])
       \/ Continues(ents, k)

\* The fragments of the runs that start at a B-<T>, from token k on.
RECURSIVE RunFragments(_, _)
RunFragments(ents, k) ==
    IF k > Len(ents) THEN <<>>
    ELSE IF IsBegin(ents[k])
         THEN <<RunText(ents, k)>> \o RunFragments(ents, RunEnd(ents, k) + 1)
         ELSE RunFragments(ents, k + 1)

JohnsonIs30 ==
    <<NEREntity(<<"J", "o", "h", "n">>, <<"B", "-">> \o FIRSTNAME),
      NEREntity(<<"#", "#", "s", "o", "n">>, <<"I", "-">> \o FIRSTNAME),
      NEREntity(<<"i", "s">>, <<"O">>),
      NEREntity(<<"3", "0">>, <<"B", "-">> \o AGE)>>

\* C28: on tokens tagged B-<T>, I-<T> or non-sensitive in which every I-<T>
\* directly continues its run, extract_sensitive_sequences returns, in input
\* order, one fragment per B-<T>: the texts of that token and of the I-<T>
\* tokens directly following it, concatenated with "##" removed; on
\* [John/B-FIRSTNAME, ##son/I-FIRSTNAME, is/O, 30/B-AGE] it returns
\* [Johnson, 30].
C28_MergerConcatenatesRuns ==
    merger.pc = "return" =>
       /\ WellTagged(merger.ner_entities) =>
             merger.sequences = RunFragments(merger.ner_entities, 1)
       /\ merger.ner_entities = JohnsonIs30 =>
             merger.sequences = <<<<"J", "o", "h", "n", "s", "o", "n">>, <<"3", "0">>>>

\* The merger has returned on [John/B-FIRSTNAME, ##son/I-FIRSTNAME, is/O,
\* 30/B-AGE].
C28_Witness ==
    /\ merger.pc = "return"
    /\ merger.ner_entities = JohnsonIs30
    /\ Len(merger.sequences) = 2

\* The label of the current token is neither non-sensitive nor B-<T> / I-<T>.
Unrecognized ==
    /\ label \notin non_senstive_label2id
    /\ ~(Contains(label, <<"-">>) /\ prefix \in {<<"B">>, <<"I">>})

\* C29: the iteration over a token whose label has no B- or I- prefix, with
\* or without a hyphen, closes and emits the open fragment and clears the
\* state, so that an I-<T> after it starts a new fragment.
C29_UnknownLabelClosesFragment ==
    [][(InLoop /\ Unrecognized) =>
          /\ merger'.sequences = closed
          /\ merger'.current_sequence = <<>>
          /\ merger'.current_label_type = None]_vars

\* The current token is an I-<T> that cannot extend: no fragment is open, or
\* the open fragment has another type.
StrayInside ==
    /\ InLoop
    /\ IsInside(entity)
    /\ merger.current_sequence = <<>> \/ merger.current_label_type # TypeOf(entity)

\* C30: the iteration over an I-<T> token that arrives when no fragment is
\* open, or when the open fragment has a different type, emits the open
\* fragment if there is one and opens a fragment of type T that holds exactly
\* that token's text; the token is not discarded.
C30_StrayInsideStartsFragment ==
    [][StrayInside =>
          /\ merger'.sequences =
                 merger.sequences \o
                    (IF merger.current_sequence = <<>> THEN <<>>
                     ELSE <<Join(merger.current_sequence)>>)
          /\ merger'.current_sequence = <<WithoutMarker(entity.entity_text)>>
          /\ merger'.current_label_type = TypeOf(entity)]_vars

\* [John/B-FIRSTNAME, 30/I-AGE]: the I-AGE token has closed "John" and
\* opened "30".
C30_Witness ==
    /\ merger.pc = "for"
    /\ merger.i = 3
    /\ merger.ner_entities[1] = NEREntity(<<"J", "o", "h", "n">>, <<"B", "-">> \o FIRSTNAME)
    /\ merger.ner_entities[2] = NEREntity(<<"3", "0">>, <<"I", "-">> \o AGE)
    /\ merger.sequences = << <<"J", "o", "h", "n">> >>
    /\ merger.current_sequence = << <<"3", "0">> >>
    /\ merger.current_label_type = AGE

\* The fragments found on the screenshot by the merger and by the scanner.
DetectedFragments ==
    {shot.bilstm_crf_pii_sequences[k] : k \in 1..Len(shot.bilstm_crf_pii_sequences)}
    \cup {shot.common_pii_sequneces[k] : k \in 1..Len(shot.common_pii_sequneces)}

\* record_activity has built its ScreenshotActivity with redaction enabled.
Redacted == shot.hide_sensitive_info /\ shot.screenshot_activity # NoActivity

\* The activity shows or spells out the fragment f: in its OCR text, in its
\* keywords, or in an unblurred chunk of one of its two images.
Carries(activity, f) ==
    \/ Contains(activity.screenshot_ocr_text, f)
    \/ Contains(activity.keywords, f)
    \/ \E image \in {activity.original_screenshot_pil_image,
                      activity.modified_screenshot_pil_image} :
          \E k \in 1..Len(image.shows) :
             /\ Contains(lower(image.shows[k].text), f)
             /\ ~(pasted(image.shows[k].text_bounding_box) \subseteq image.blurred)

\* C26: with redaction enabled, the ScreenshotActivity that has been inserted
\* into the index and written to the session file carries no fragment that
\* the merger or the scanner detected on that screenshot.
C26_StoredActivityIsRedacted ==
    (Redacted /\ shot.pc = "done") =>
       \A f \in DetectedFragments \ {<<>>} :
          /\ ~Carries(metadata_store[Len(metadata_store)].activity, f)
          /\ ~Carries(files[current_index_file_path].metadata[
                         Len(files[current_index_file_path].metadata)].activity, f)

\* C27: with redaction enabled, the polygons handed to the blur step are
\* exactly the polygons of the OCR chunks whose text contains, without regard
\* to case, at least one detected fragment.
C27_BlurredPolygonsAreMatchingChunks ==
    Redacted =>
       {shot.pii_extracted_bounding_boxes[k] :
           k \in 1..Len(shot.pii_extracted_bounding_boxes)}
       = {shot.text_ocr_chunks[k].text_bounding_box :
             k \in {j \in 1..Len(shot.text_ocr_chunks) :
                       \E f \in DetectedFragments :
                          Contains(lower(shot.text_ocr_chunks[j].text), lower(f))}}

\* start_recording has run past its guard: a call made while not recording.
StartsRecording == ~state.is_active /\ state'.is_active

\* C31: a start_recording call from Idle replaces the recording state
\* (is_active true, both timers reset), clears the stop signal and spawns
\* both pollers at the top of their loops, and stores nothing itself; and
\* the first interval check that a poller of the new pair makes leads to a
\* capture.
C31_StartResetsAndPollersCapture ==
    [][/\ StartsRecording =>
             /\ state' = RecordingState(TRUE)
             /\ ~stop_event'
             /\ ~is_alive(scr[screen_thread']) /\ scr'[screen_thread'] = AtLoop
             /\ ~is_alive(app[app_thread']) /\ app'[app_thread'] = AtLoop
             /\ UNCHANGED <<index, metadata_store, files, session_activites>>
       /\ (first_check.screen /\ ~first_check'.screen) =>
             scr'[screen_thread].pc = "record"
       /\ (first_check.app /\ ~first_check'.app) =>
             app'[app_thread].pc = "record"]_vars

\* --------------------------------- the pollers across several poll intervals
\* time.time() moves on between two steps, by a little less than the shorter
\* interval or by exactly that interval.
MaxIntervals == 2

Elapses == {app_poll_interval_seconds - 1, app_poll_interval_seconds}

Elapse ==
    /\ \E d \in Elapses :
         /\ now + d <= StartTime + MaxIntervals * app_poll_interval_seconds
         /\ now' = now + d
    /\ UNCHANGED <<index, metadata_store, current_index_file_path, files,
                   index_lock, session_activites, state, screen_thread,
                   app_thread, stop_event, last_app_activity, recorder, scr,
                   app, main, calls, pre_switch, pre_add, inserted_app,
                   ignored_start, first_check, last_check, ui, self_dim,
                   merger, shot, result>>

IntervalNext ==
    \/ Elapse
    \/ ScreenPoller
    \/ AppPoller
    \/ MainStartRecording
    \/ MainStopRecording
    \/ stop_recording_join_screen
    \/ stop_recording_join_app

IntervalSpec == StopInit /\ [][IntervalNext]_vars

\* The poller of the current pair passes its interval check and starts a capture.
ScreenCaptureStarts ==
    /\ screen_thread \in Slots
    /\ scr[screen_thread].pc = "loop"
    /\ scr'[screen_thread].pc = "record"
    /\ screen_thread' = screen_thread

AppCaptureStarts ==
    /\ app_thread \in Slots
    /\ app[app_thread].pc = "loop"
    /\ app'[app_thread].pc = "record"
    /\ app_thread' = app_thread

\* The application poller of the current pair ends a poll, with or without
\* an insert.
AppPollEnds ==
    /\ app_thread \in Slots
    /\ app[app_thread].pc \in {"lock", "snapshot"}
    /\ app'[app_thread].pc = "loop"
    /\ app_thread' = app_thread

\* C32: within one recording run two consecutive captures of the same poller
\* start at least that poller's interval apart (screenshot_interval_seconds,
\* app_poll_interval_seconds), measured at the check times; the application
\* poller's timer advances on every poll, also when nothing is inserted.
C32_CapturesAreAnIntervalApart ==
    [][/\ (ScreenCaptureStarts /\ last_check.screen # 0) =>
              now - last_check.screen >= screenshot_interval_seconds
       /\ (AppCaptureStarts /\ last_check.app # 0) =>
              now - last_check.app >= app_poll_interval_seconds
       /\ AppPollEnds =>
              state'.last_app_time = app[app_thread].current_time]_vars

\* Application poller i leaves its critical section after add_text has
\* appended its activity.
AppReleasesAfterInsert(i) ==
    /\ index_lock = Tid("app", i)
    /\ index_lock' = NoThread
    /\ app[i].pc \in {"save", "snapshot"}

\* C33: whenever the application poller inserts an ApplicationActivity, then
\* before it releases index_lock the session-activities snapshot equals the
\* index manager's full metadata, the entry just inserted included, the
\* recorder's switch-time anchor is refreshed and the last-inserted activity
\* is the new one.
C33_AppInsertRefreshesSnapshot ==
    [][\A i \in Slots :
          AppReleasesAfterInsert(i) =>
             /\ session_activites' = get_activities_metadata(metadata_store')
             /\ metadata_store' # <<>>
             /\ metadata_store'[Len(metadata_store')] = Metadata(app[i].activity)
             /\ recorder'.last_switch_time = now
             /\ last_app_activity' = app[i].activity]_vars

\* ------------------------------------- the recorder window and the menu
\* SimpleRecorderWindow.toggle_recording: with no index it warns and returns;
\* else it flips is_recording and starts or stops the ActivityManager.
\* `next` is where the caller goes on when the call has returned.
toggle_recording(next) ==
    IF index = None
    THEN /\ main' = [main EXCEPT !.pc = next]
         /\ UNCHANGED <<state, stop_event, screen_thread, app_thread, scr, app,
                        first_check, last_check>>
    ELSE IF ~ui.is_recording
         THEN /\ start_recording
              /\ main' = [main EXCEPT !.pc = next]
         ELSE /\ IF state.is_active
                 THEN stop_recording_signal(next)
                 ELSE /\ main' = [main EXCEPT !.pc = next]
                      /\ UNCHANGED <<state, stop_event>>
              /\ UNCHANGED <<screen_thread, app_thread, scr, app, first_check,
                             last_check>>

toggled == IF index = None THEN ui.is_recording ELSE ~ui.is_recording

\* The user presses the record button.
RecordButton ==
    /\ main.pc = "idle"
    /\ ui.handler = "none"
    /\ calls < MaxCalls
    /\ calls' = calls + 1
    /\ toggle_recording("idle")
    /\ ui' = [ui EXCEPT !.is_recording = toggled]
    /\ UNCHANGED <<index, metadata_store, current_index_file_path, files,
                   index_lock, session_activites, last_app_activity, recorder,
                   now, pre_switch, pre_add, inserted_app, ignored_start,
                   self_dim, merger, shot, result>>

\* CollapsibleMenu.on_load_session / on_create_session, up to the call of
\* the ActivityManager: if self.recording_ui.is_recording: toggle_recording(...)
on_session_begin(op) ==
    /\ main.pc = "idle"
    /\ ui.handler = "none"
    /\ calls < MaxCalls
    /\ calls' = calls + 1
    /\ IF ui.is_recording
       THEN /\ toggle_recording("menu_call")
            /\ ui' = [is_recording |-> toggled, handler |-> op,
                      was_active |-> state.is_active]
       ELSE /\ main' = [main EXCEPT !.pc = "menu_call"]
            /\ ui' = [ui EXCEPT !.handler = op, !.was_active = state.is_active]
            /\ UNCHANGED <<state, stop_event, screen_thread, app_thread, scr,
                           app, first_check, last_check>>
    /\ UNCHANGED <<index, metadata_store, current_index_file_path, files,
                   index_lock, session_activites, last_app_activity, recorder,
                   now, pre_switch, pre_add, inserted_app, ignored_start,
                   self_dim, merger, shot, result>>

\* self.activity_manager.load_session(file_path) / create_session(file_path)
\* with the path chosen in the file dialog, up to the stop: the same
\* statements as SwitchBegin
on_session_call(p) ==
    /\ main.pc = "menu_call"
    /\ pre_switch' = LoadedSession
    /\ LET first == IF ui.handler = "load" THEN "li_exists" ELSE "ci_exists"
           m == [main EXCEPT !.op = ui.handler, !.path = NormalizePath(p),
                             !.was_recording = state.is_active]
       IN IF state.is_active
          THEN /\ state' = [state EXCEPT !.is_active = FALSE]
               /\ stop_event' = TRUE
               /\ main' = [m EXCEPT !.pc = "join_screen", !.ret = first]
          ELSE /\ main' = [m EXCEPT !.pc = first]
               /\ UNCHANGED <<state, stop_event>>
    /\ UNCHANGED <<index, metadata_store, current_index_file_path, files,
                   index_lock, session_activites, screen_thread, app_thread,
                   last_app_activity, recorder, scr, app, now, calls, pre_add,
                   inserted_app, ignored_start, first_check, last_check, ui,
                   self_dim, merger, shot, result>>

\* load_session / create_session return (if was_recording: start_recording())
\* and the handler goes on to its second toggle_recording
on_session_returned ==
    /\ main.pc = "sw_restart"
    /\ IF main.was_recording
       THEN start_recording
       ELSE UNCHANGED <<state, stop_event, screen_thread, app_thread, scr, app,
                        first_check, last_check>>
    /\ main' = [MainIdle EXCEPT !.pc = "menu_toggle"]
    /\ pre_switch' = NoSwitch
    /\ UNCHANGED <<index, metadata_store, current_index_file_path, files,
                   index_lock, session_activites, last_app_activity, recorder,
                   now, calls, pre_add, inserted_app, ignored_start, ui,
                   self_dim, merger, shot, result>>

\* self.recording_ui.toggle_recording(continue_timer=False, force_restart=True)
\* after a successful switch; the handler ends
on_session_toggle ==
    /\ main.pc = "menu_toggle"
    /\ toggle_recording("idle")
    /\ ui' = [ui EXCEPT !.is_recording = toggled, !.handler = "none"]
    /\ UNCHANGED <<index, metadata_store, current_index_file_path, files,
                   index_lock, session_activites, last_app_activity, recorder,
                   now, calls, pre_switch, pre_add, inserted_app,
                   ignored_start, self_dim, merger, shot, result>>

\* load_session / create_session raise (except: if was_recording:
\* start_recording(); raise) and the handler's `except Exception` shows the
\* message box; the handler ends
on_session_failed ==
    /\ main.pc = "sw_except"
    /\ IF main.was_recording
       THEN start_recording
       ELSE UNCHANGED <<state, stop_event, screen_thread, app_thread, scr, app,
                        first_check, last_check>>
    /\ main' = MainIdle
    /\ pre_switch' = NoSwitch
    /\ ui' = [ui EXCEPT !.handler = "none"]
    /\ UNCHANGED <<index, metadata_store, current_index_file_path, files,
                   index_lock, session_activites, last_app_activity, recorder,
                   now, calls, pre_add, inserted_app, ignored_start, self_dim,
                   merger, shot, result>>

on_load_session == on_session_begin("load")

on_create_session == on_session_begin("create")

MenuNext ==
    \/ ScreenPoller
    \/ AppPoller
    \/ RecordButton
    \/ on_load_session
    \/ on_create_session
    \/ \E p \in PathArgs : on_session_call(p)
    \/ MainJoinScreen
    \/ MainJoinApp
    \/ load_index_read
    \/ load_index_set_index
    \/ load_index_set_metadata
    \/ load_index_set_path
    \/ create_index_exists
    \/ create_index_new_index
    \/ create_index_new_metadata
    \/ create_index_set_path
    \/ create_index_save
    \/ SwitchSnapshot
    \/ on_session_returned
    \/ on_session_toggle
    \/ on_session_failed

MenuSpec == Init /\ [][MenuNext]_vars

\* C34: when the user loads or creates a session through the menu handlers
\* while recording is active and the switch fails, recording is active again
\* when the handler finishes.
C34_FailedMenuSwitchKeepsRecording ==
    [][(main.pc = "sw_except" /\ main'.pc = "idle" /\ ui.was_active)
          => state'.is_active]_vars

\* C35: whenever is_active is true and no start/stop/switch call is in
\* progress, both poller threads of the current pair are running their loops.
C35_ActiveMeansBothPollersRun ==
    (state.is_active /\ main.pc = "idle")
       => /\ screen_thread \in Slots /\ is_alive(scr[screen_thread])
          /\ app_thread \in Slots /\ is_alive(app[app_thread])

\* ActivityManager.get_session_activities, called by the window between
\* two operations of the coordinating thread
get_session_activities == session_activites

\* C36: the snapshot returned by get_session_activities is at every time a
\* prefix (same entries, same order) of the metadata of the session loaded
\* in the index manager, for any interleaving of inserts and switches.
C36_SnapshotIsPrefixOfMetadata ==
    main.pc = "idle" =>
       IsPrefix(get_session_activities, get_activities_metadata(metadata_store))

\* The places in the metadata list (from 0) that the loop of search_by_text
\* reads for the reported positions, a negative position counted from the end.
entries_read(md, labels) ==
    LET F[j \in 0..Len(labels)] ==
          IF j = 0 THEN <<>>
          ELSE IF labels[j] < Len(md)
               THEN Append(F[j - 1], IF labels[j] >= 0 THEN labels[j]
                                     ELSE Len(md) + labels[j])
               ELSE F[j - 1]
    IN F[Len(labels)]

\* C37: search_by_text returns at most min(k, number of stored entries)
\* results and never returns the same stored entry twice, for every k, also
\* k larger than the number of stored vectors.
C37_SearchResultsBoundedAndDistinct ==
    [][(Called("search_by_text") /\ result'.error = "") =>
          LET read == entries_read(metadata_store, result'.labels)
          IN /\ Len(result'.value) <= Min(result'.k, Len(metadata_store))
             /\ \A i, j \in 1..Len(read) : i # j => read[i] # read[j]]_vars

\* C38: every sensitive fragment that the merger or the scanner derives from
\* the joined OCR text is a substring of the lower-cased text of at least one
\* OCR chunk, so that every detected fragment has a region blurred for it.
C38_FragmentsLieInOneChunk ==
    Redacted =>
       \A f \in DetectedFragments :
          \E k \in 1..Len(shot.text_ocr_chunks) :
             /\ Contains(lower(shot.text_ocr_chunks[k].text), f)
             /\ \E b \in 1..Len(shot.pii_extracted_bounding_boxes) :
                   shot.pii_extracted_bounding_boxes[b]
                      = shot.text_ocr_chunks[k].text_bounding_box

\* add_text raises in poller t, which holds index_lock.
RaisesInAddText(t) ==
    /\ InAddText(PollerOf(t))
    /\ index_lock = t
    /\ ~is_alive(PollerOf(t)')

WaitsForLock(t) == PollerOf(t).pc = "lock"

====
